---- MODULE Spec2Model ----
(***************************************************************************)
(* Model of the MAST forest (core/src/mast) and of the compiled-library    *)
(* packaging (assembly/src/library) of the Miden assembler.                *)
(*                                                                         *)
(* Digests are modelled symbolically: the sponge hash of miden_crypto is   *)
(* a collision-free function, so the digest of a value is the term that    *)
(* describes how it was hashed.  A digest handed in from outside (the      *)
(* payload of an External node) may be any such term.                      *)
(***************************************************************************)
EXTENDS Integers, Sequences, FiniteSets, TLC

\* ------------------------------------------------------------------ bounds

\* Largest number of nodes a forest holds in the model.
MaxNodes == 2
\* Largest number of structurally new nodes handed to add_node in one run.
MaxInserts == MaxNodes
\* Number of different operation lists a basic block is built from.
MaxBlocks == 2
\* Number of digests that belong to no node of the model (external code).
MaxForeignDigests == 1
\* Longest list of exports, and largest block forest, below the kernel's limit.
MaxSmallExports == 2
\* By how many procedures a list of exports may exceed the kernel's limit.
MaxOver == 1
\* Longest decorator list set on a node.
MaxDecorators == 2
\* Largest count of a repeat block, and of a run of exec instructions.
MaxRepeat == 4
\* Largest forest the assembler's builder grows.
MaxAsmNodes == 3
\* Deepest nesting of open blocks in a source.
MaxDepth == 3
MaxAdviceKeys == 2
MaxInstructions == 2
MaxRangeChecks == 6
MaxClk == 2
MaxProcRefs == 1

\* ----------------------------------------------------------------- digests

\* RpoDigest::default(): the word [ZERO; 4].
ZeroWord == <<"raw", 0>>

\* hasher::merge_in_domain(&[l, r], domain)
merge_in_domain(l, r, domain) == <<"merge", domain, l, r>>

CALL_DOMAIN == "CALL"
\* SYSCALL_DOMAIN with the opcode of call.
SYSCALL_DOMAIN_with_call_opcode == "CALL"
SYSCALL_DOMAIN == "SYSCALL"
JOIN_DOMAIN == "JOIN"
SPLIT_DOMAIN == "SPLIT"
LOOP_DOMAIN == "LOOP"

\* Digest of a basic block: the hash of its operation groups.
hash_block(ops) == <<"block", ops>>

\* DynNode.digest(): a constant.
DynNodeDigest == <<"dyn", 0>>

\* Digests of code that lives in no forest of the model.
ForeignDigests == {<<"raw", n>> : n \in 0..MaxForeignDigests}

\* ------------------------------------------------------------------- nodes

\* digest with the External arm hashing its payload instead of returning it.
MastNodeDigest_rehashes_external(node) ==
    CASE node.tag = "Dyn"      -> DynNodeDigest
      [] node.tag = "External" -> merge_in_domain(node.digest, ZeroWord, "EXTERNAL")
      [] OTHER                 -> node.digest

\* MerkleTreeNode::digest for MastNode: one arm per variant.
MastNodeDigest(node) ==
    CASE node.tag = "Block"    -> node.digest
      [] node.tag = "Join"     -> node.digest
      [] node.tag = "Split"    -> node.digest
      [] node.tag = "Loop"     -> node.digest
      [] node.tag = "Call"     -> node.digest
      [] node.tag = "Dyn"      -> DynNodeDigest
      [] node.tag = "External" -> node.digest

\* The child ids a node stores.
Children(node) ==
    CASE node.tag \in {"Join", "Split"} -> node.children
      [] node.tag = "Loop"              -> <<node.body>>
      [] node.tag = "Call"              -> <<node.callee>>
      [] OTHER                          -> <<>>

\* MastForest::get_node_by_id; ids count from 0.
get_node_by_id(ns, id) == ns[id + 1]

\* A constructor's failure.
NodeIdOverflow(id, len) == [err |-> "NodeIdOverflow", id |-> id, len |-> len]

IsErr(r) == "err" \in DOMAIN r

new_basic_block(ops) == [tag |-> "Block", ops |-> ops, digest |-> hash_block(ops)]

new_join(children, ns) ==
    IF \E i \in 1..2 : children[i] >= Len(ns)
    THEN NodeIdOverflow(IF children[1] >= Len(ns) THEN children[1] ELSE children[2], Len(ns))
    ELSE [tag |-> "Join", children |-> children,
          digest |-> merge_in_domain(MastNodeDigest(get_node_by_id(ns, children[1])),
                                     MastNodeDigest(get_node_by_id(ns, children[2])),
                                     JOIN_DOMAIN)]

new_split(branches, ns) ==
    IF \E i \in 1..2 : branches[i] >= Len(ns)
    THEN NodeIdOverflow(IF branches[1] >= Len(ns) THEN branches[1] ELSE branches[2], Len(ns))
    ELSE [tag |-> "Split", children |-> branches,
          digest |-> merge_in_domain(MastNodeDigest(get_node_by_id(ns, branches[1])),
                                     MastNodeDigest(get_node_by_id(ns, branches[2])),
                                     SPLIT_DOMAIN)]

new_loop(body, ns) ==
    IF body >= Len(ns)
    THEN NodeIdOverflow(body, Len(ns))
    ELSE [tag |-> "Loop", body |-> body,
          digest |-> merge_in_domain(MastNodeDigest(get_node_by_id(ns, body)),
                                     ZeroWord, LOOP_DOMAIN)]

\* DecoratorSpan::default(): no decorators.
DecoratorSpan_default == <<>>

\* CallNode::new with the bound check off by one (> for >=).
CallNode_new_off_by_one(callee, ns) ==
    IF callee > Len(ns)
    THEN NodeIdOverflow(callee, Len(ns))
    ELSE [tag |-> "Call", callee |-> callee, is_syscall |-> FALSE,
          digest |-> merge_in_domain(IF callee < Len(ns)
                                     THEN MastNodeDigest(get_node_by_id(ns, callee))
                                     ELSE ZeroWord,
                                     ZeroWord, CALL_DOMAIN),
          before_enter |-> DecoratorSpan_default, after_exit |-> DecoratorSpan_default]

\* CallNode::new
CallNode_new(callee, ns) ==
    IF callee >= Len(ns)
    THEN NodeIdOverflow(callee, Len(ns))
    ELSE [tag |-> "Call", callee |-> callee, is_syscall |-> FALSE,
          digest |-> merge_in_domain(MastNodeDigest(get_node_by_id(ns, callee)),
                                     ZeroWord, CALL_DOMAIN),
          before_enter |-> DecoratorSpan_default, after_exit |-> DecoratorSpan_default]

\* CallNode::new_syscall hashing in the domain of a plain call.
CallNode_new_syscall_in_call_domain(callee, ns) ==
    IF callee >= Len(ns)
    THEN NodeIdOverflow(callee, Len(ns))
    ELSE [tag |-> "Call", callee |-> callee, is_syscall |-> TRUE,
          digest |-> merge_in_domain(MastNodeDigest(get_node_by_id(ns, callee)),
                                     ZeroWord, "CALL"),
          before_enter |-> DecoratorSpan_default, after_exit |-> DecoratorSpan_default]

\* CallNode::new_syscall with the bound check off by one (> for >=).
CallNode_new_syscall_off_by_one(callee, ns) ==
    IF callee > Len(ns)
    THEN NodeIdOverflow(callee, Len(ns))
    ELSE [tag |-> "Call", callee |-> callee, is_syscall |-> TRUE,
          digest |-> merge_in_domain(IF callee < Len(ns)
                                     THEN MastNodeDigest(get_node_by_id(ns, callee))
                                     ELSE ZeroWord,
                                     ZeroWord, SYSCALL_DOMAIN),
          before_enter |-> DecoratorSpan_default, after_exit |-> DecoratorSpan_default]

\* CallNode::new_syscall
CallNode_new_syscall(callee, ns) ==
    IF callee >= Len(ns)
    THEN NodeIdOverflow(callee, Len(ns))
    ELSE [tag |-> "Call", callee |-> callee, is_syscall |-> TRUE,
          digest |-> merge_in_domain(MastNodeDigest(get_node_by_id(ns, callee)),
                                     ZeroWord, SYSCALL_DOMAIN),
          before_enter |-> DecoratorSpan_default, after_exit |-> DecoratorSpan_default]

\* CallNode::new_unsafe: nothing is checked or computed.
CallNode_new_unsafe(callee, digest) ==
    [tag |-> "Call", callee |-> callee, is_syscall |-> FALSE, digest |-> digest,
     before_enter |-> DecoratorSpan_default, after_exit |-> DecoratorSpan_default]

\* CallNode::new_syscall_unsafe
CallNode_new_syscall_unsafe(callee, digest) ==
    [tag |-> "Call", callee |-> callee, is_syscall |-> TRUE, digest |-> digest,
     before_enter |-> DecoratorSpan_default, after_exit |-> DecoratorSpan_default]

\* CallNode::digest
CallNode_digest(node) == node.digest

\* CallNode::callee
CallNode_callee(node) == node.callee

\* CallNode::is_syscall
CallNode_is_syscall(node) == node.is_syscall

\* CallNode::domain
CallNode_domain(node) ==
    IF CallNode_is_syscall(node) THEN SYSCALL_DOMAIN ELSE CALL_DOMAIN

\* CallNode::set_before_enter recomputing the digest over the decorators.
CallNode_set_before_enter_rehashing(node, decorator_ids) ==
    [node EXCEPT !.before_enter = decorator_ids,
                 !.digest = <<"decorated", node.digest, decorator_ids>>]

\* CallNode::set_before_enter
CallNode_set_before_enter(node, decorator_ids) ==
    [node EXCEPT !.before_enter = decorator_ids]

\* CallNode::set_after_exit
CallNode_set_after_exit(node, decorator_ids) ==
    [node EXCEPT !.after_exit = decorator_ids]

\* ExternalNode::new
ExternalNode_new(procedure_hash) ==
    [tag |-> "External", digest |-> procedure_hash,
     before_enter |-> <<>>, after_exit |-> <<>>]

\* ExternalNode::digest
ExternalNode_digest(node) == node.digest

\* ExternalNode::set_before_enter
ExternalNode_set_before_enter(node, decorator_ids) ==
    [node EXCEPT !.before_enter = decorator_ids]

\* ExternalNode::set_after_exit
ExternalNode_set_after_exit(node, decorator_ids) ==
    [node EXCEPT !.after_exit = decorator_ids]

new_dyncall == [tag |-> "Dyn"]

new_external(code_hash) == [tag |-> "External", digest |-> code_hash]

\* ------------------------------------------------------------------ forest

VARIABLES
    nodes,            \* MastForest.nodes
    node_id_by_hash,  \* MastForest.node_id_by_hash
    firsts,           \* the structurally new nodes handed to add_node: the node, the id
                      \* returned and the node the forest held under that id
    last              \* the last call and what it returned

forestVars == <<nodes, node_id_by_hash, firsts, last>>

\* The library being packaged, written or read.
VARIABLES
    lib,      \* the CompiledLibrary in hand, or NoValue
    klib,     \* the KernelLibrary in hand, or NoValue
    bytes,    \* the bytes in the writer or reader, or NoValue
    written,  \* what the bytes were written from, and with which options
    libres    \* the last library operation and its result

libVars == <<lib, klib, bytes, written, libres>>

\* A call or external node handled by value, outside any forest.
VARIABLES
    held,     \* the node in hand, or NoValue
    heldWas   \* the last operation on it, its argument and the node before it

nodeVars == <<held, heldWas>>

\* The assembler lowering procedure bodies into its forest builder.
VARIABLES
    builder,  \* MastForestBuilder: the nodes and the digest index of its forest
    asmKernel,  \* the kernel the assembler was made with: name -> procedure digest
    blockOps, \* BasicBlockBuilder: the operations of the basic block being built
    lowered   \* the last lowering: what was lowered, the nodes it added, the result

asmVars == <<builder, asmKernel, blockOps, lowered>>

\* The parser reading the tokens of one source.
VARIABLES
    blocks,   \* the block stack, ModuleTop at the bottom
    parser,   \* parsing, or how the parse ended
    lastRead  \* the last token read and what its validator returned

parseVars == <<blocks, parser, lastRead>>

\* A program with an advice map run on a host.
VARIABLES
    program,  \* the advice map of the program's forest
    host,     \* the host's advice provider: its map and its advice stack
    run       \* the execution: its status, the host's keys before it, the last instruction

execVars == <<program, host, run>>

\* The range checker collecting lookups and turned into its trace.
VARIABLES
    checker,     \* the RangeChecker: lookups and cycle_range_checks, or NoValue when consumed
    rangeTrace   \* what into_trace returned, or NoValue

rangeVars == <<checker, rangeTrace>>

\* What the operations of one part of the model leave alone.
otherThanForest == <<libVars, nodeVars, asmVars, parseVars, execVars, rangeVars>>
otherThanLib == <<forestVars, nodeVars, asmVars, parseVars, execVars, rangeVars>>
otherThanNode == <<forestVars, libVars, asmVars, parseVars, execVars, rangeVars>>
otherThanAsm == <<forestVars, libVars, nodeVars, parseVars, execVars, rangeVars>>
otherThanParse == <<forestVars, libVars, nodeVars, asmVars, execVars, rangeVars>>
otherThanExec == <<forestVars, libVars, nodeVars, asmVars, parseVars, rangeVars>>
otherThanRange == <<forestVars, libVars, nodeVars, asmVars, parseVars, execVars>>

\* MastForest::get_node_id_by_digest; -1 stands for None.
get_node_id_by_digest(index, digest) ==
    IF digest \in DOMAIN index THEN index[digest] ELSE -1

\* add_node without the look-up: every node handed in is appended.
add_node_always_appends(ns, index, node) ==
    [nodes |-> Append(ns, node),
     index |-> [d \in DOMAIN index \cup {MastNodeDigest(node)} |->
                   IF d = MastNodeDigest(node) THEN Len(ns) ELSE index[d]],
     id |-> Len(ns)]

\* add_node that appends a new node and leaves the index as it was.
add_node_leaves_index(ns, index, node) ==
    IF MastNodeDigest(node) \in DOMAIN index
    THEN [nodes |-> ns, index |-> index, id |-> index[MastNodeDigest(node)]]
    ELSE [nodes |-> Append(ns, node), index |-> index, id |-> Len(ns)]

\* MastForest::add_node: the forest after the call and the id returned.
add_node(ns, index, node) ==
    LET node_digest == MastNodeDigest(node) IN
    IF node_digest \in DOMAIN index
    THEN [nodes |-> ns, index |-> index, id |-> index[node_digest]]
    ELSE [nodes |-> Append(ns, node),
          index |-> [d \in DOMAIN index \cup {node_digest} |->
                        IF d = node_digest THEN Len(ns) ELSE index[d]],
          id |-> Len(ns)]

\* The nodes handed to add_node so far.
Submitted == {firsts[i].node : i \in 1..Len(firsts)}

\* One call of a constructor followed, when it succeeds, by add_node.
Insert(op, built) ==
    /\ UNCHANGED otherThanForest
    /\ IF IsErr(built)
       THEN /\ last' = [op |-> op, ok |-> FALSE, error |-> built]
            /\ UNCHANGED <<nodes, node_id_by_hash, firsts>>
       ELSE LET r == add_node(nodes, node_id_by_hash, built)
                known == built \in Submitted
            IN  /\ Len(r.nodes) <= MaxNodes
                /\ known \/ Len(firsts) < MaxInserts
                /\ nodes' = r.nodes
                /\ node_id_by_hash' = r.index
                /\ firsts' = IF known THEN firsts
                             ELSE Append(firsts, [node |-> built, id |-> r.id,
                                                  stored |-> get_node_by_id(r.nodes, r.id)])
                /\ last' = [op |-> op, ok |-> TRUE, node |-> built, id |-> r.id,
                            appended |-> Len(r.nodes) > Len(nodes), known |-> known]

\* Child ids a caller may pass: every valid id and the first that is not.
IdInputs == 0..Len(nodes)

AddBlock == \E ops \in 1..MaxBlocks : Insert("block", new_basic_block(ops))

AddJoin == \E l \in IdInputs, r \in IdInputs : Insert("join", new_join(<<l, r>>, nodes))

AddSplit == \E t \in IdInputs, e \in IdInputs : Insert("split", new_split(<<t, e>>, nodes))

AddLoop == \E body \in IdInputs : Insert("loop", new_loop(body, nodes))

AddCall == \E callee \in IdInputs : Insert("call", CallNode_new(callee, nodes))

AddSysCall == \E callee \in IdInputs : Insert("syscall", CallNode_new_syscall(callee, nodes))

\* The values a trusted source (a forest that was built by the checked
\* constructors and written out) hands to the unchecked constructors.
TrustedCallInputs(ns) ==
    {[callee |-> c, is_syscall |-> sys,
      digest |-> MastNodeDigest(IF sys THEN CallNode_new_syscall(c, ns)
                                       ELSE CallNode_new(c, ns))] :
        c \in 0..Len(ns) - 1, sys \in BOOLEAN}

AddCallUnsafe ==
    \E t \in TrustedCallInputs(nodes) :
        Insert("call_unsafe", IF t.is_syscall
                              THEN CallNode_new_syscall_unsafe(t.callee, t.digest)
                              ELSE CallNode_new_unsafe(t.callee, t.digest))

AddDyn == Insert("dyn", new_dyncall)

\* The nodes the constructors build over the nodes ns.
BuildableOver(ns) ==
    {new_basic_block(ops) : ops \in 1..MaxBlocks}
    \cup {new_dyncall}
    \cup {new_join(<<l, r>>, ns) : l \in 0..Len(ns) - 1, r \in 0..Len(ns) - 1}
    \cup {new_split(<<l, r>>, ns) : l \in 0..Len(ns) - 1, r \in 0..Len(ns) - 1}
    \cup {new_loop(b, ns) : b \in 0..Len(ns) - 1}
    \cup {CallNode_new(c, ns) : c \in 0..Len(ns) - 1}
    \cup {CallNode_new_syscall(c, ns) : c \in 0..Len(ns) - 1}

\* The digests a caller may name in an External node: digests of foreign code,
\* and the digest of any node that this forest holds or could be given next.
ExternalInputs == ForeignDigests \cup {MastNodeDigest(n) : n \in BuildableOver(nodes)}

AddExternal == \E d \in ExternalInputs : Insert("external", new_external(d))

InitForest ==
    /\ nodes = <<>>
    /\ node_id_by_hash = <<>>
    /\ firsts = <<>>
    /\ last = [op |-> "new", ok |-> FALSE]

NextForest ==
    \/ AddBlock
    \/ AddJoin
    \/ AddSplit
    \/ AddLoop
    \/ AddCall
    \/ AddSysCall
    \/ AddCallUnsafe
    \/ AddDyn
    \/ AddExternal


\* ----------------------------------------------------------------- library

NoValue == [none |-> TRUE]

\* Kernel::MAX_NUM_PROCEDURES
MAX_NUM_PROCEDURES == 256

\* LibraryPath::from(LibraryNamespace::Kernel)
KernelPath == "#sys"

ModulePaths == {KernelPath, "lib::a", "lib::b"}

\* FullyQualifiedProcedureName
FQN(module, name) == [module |-> module, name |-> name]

\* A MastForest as a library holds it: its nodes and its procedure roots.
Forest(ns, roots) == [nodes |-> ns, roots |-> roots]

num_procedures(mast_forest) == Len(mast_forest.roots)

procedure_roots(mast_forest) == mast_forest.roots

Ok(v) == [ok |-> TRUE, val |-> v]

Err(e) == [ok |-> FALSE, panic |-> FALSE, error |-> e]

\* A panic of the Rust code (an index out of bounds).
Panic(what) == [ok |-> FALSE, panic |-> TRUE, error |-> what]

\* CompiledLibrary::new
CompiledLibrary_new(mast_forest, exports) ==
    IF num_procedures(mast_forest) # Len(exports)
    THEN Err([err |-> "InvalidExports", exports_len |-> Len(exports),
              roots_len |-> num_procedures(mast_forest)])
    ELSE Ok([mast_forest |-> mast_forest, exports |-> exports])

\* Kernel::new: at most MAX_NUM_PROCEDURES digests, kept in order.
Kernel_new(proc_digests) ==
    IF Len(proc_digests) > MAX_NUM_PROCEDURES
    THEN Err([err |-> "Kernel", kind |-> "TooManyProcedures", count |-> Len(proc_digests)])
    ELSE Ok(proc_digests)

\* The digest of the first procedure root, whatever the export.
ProcDigest_of_first_root(library, i) ==
    MastNodeDigest(get_node_by_id(library.mast_forest.nodes,
                                  procedure_roots(library.mast_forest)[1]))

\* The digest try_from finds for export i (the loop body after the path check).
ProcDigest(library, i) ==
    MastNodeDigest(get_node_by_id(library.mast_forest.nodes,
                                  procedure_roots(library.mast_forest)[i]))

\* Whether the loop body of try_from indexes out of bounds at export i.
IndexPanics(library, i) ==
    \/ i > Len(procedure_roots(library.mast_forest))
    \/ procedure_roots(library.mast_forest)[i] >= Len(library.mast_forest.nodes)

\* try_from with the result of Kernel::new taken without looking at it.
KernelLibrary_try_from_ignores_kernel_error(library) ==
    LET n == Len(library.exports)
        stops == {i \in 1..n : library.exports[i].module # KernelPath \/ IndexPanics(library, i)}
    IN  IF stops # {}
        THEN LET s == CHOOSE i \in stops : \A j \in stops : i <= j IN
             IF library.exports[s].module # KernelPath
             THEN Err([err |-> "InvalidKernelExport", procedure_path |-> library.exports[s]])
             ELSE Panic("index out of bounds")
        ELSE Ok([kernel |-> [i \in 1..n |-> ProcDigest(library, i)],
                 kernel_info |-> [path |-> KernelPath,
                                  procedure_infos |->
                                     [i \in 1..n |-> [name |-> library.exports[i].name,
                                                      digest |-> ProcDigest(library, i)]]],
                 library |-> library])

\* impl TryFrom<CompiledLibrary> for KernelLibrary: the loop stops at the first
\* export that is not from #sys (an error) or whose root is missing (a panic).
KernelLibrary_try_from(library) ==
    LET n == Len(library.exports)
        stops == {i \in 1..n : library.exports[i].module # KernelPath \/ IndexPanics(library, i)}
    IN  IF stops # {}
        THEN LET s == CHOOSE i \in stops : \A j \in stops : i <= j IN
             IF library.exports[s].module # KernelPath
             THEN Err([err |-> "InvalidKernelExport", procedure_path |-> library.exports[s]])
             ELSE Panic("index out of bounds")
        ELSE LET proc_digests == [i \in 1..n |-> ProcDigest(library, i)]
                 kernel == Kernel_new(proc_digests)
             IN  IF ~kernel.ok THEN kernel
                 ELSE Ok([kernel |-> kernel.val,
                          kernel_info |-> [path |-> KernelPath,
                                           procedure_infos |->
                                              [i \in 1..n |-> [name |-> library.exports[i].name,
                                                               digest |-> proc_digests[i]]]],
                          library |-> library])

\* ProcedureInfo
ProcedureInfo(name, digest) == [name |-> name, digest |-> digest]

\* ModuleInfo::new
ModuleInfo_new(path, procedures) == [path |-> path, procedure_infos |-> procedures]

\* ModuleInfo::add_procedure_info, for the procedures of later exports.
add_procedure_info(module, procedures) ==
    [module EXCEPT !.procedure_infos = @ \o procedures]

\* modules_by_path of earlier exports taken on by the entries of later ones:
\* the entry of a path is made by its first export and extended by the rest.
MergeModules(earlier, later) ==
    [p \in DOMAIN earlier \cup DOMAIN later |->
        IF p \notin DOMAIN earlier THEN later[p]
        ELSE IF p \notin DOMAIN later THEN earlier[p]
        ELSE add_procedure_info(earlier[p], later[p].procedure_infos)]

\* modules_by_path after the exports lo..hi of into_module_infos.
RECURSIVE ModulesByPath(_, _, _)
ModulesByPath(library, lo, hi) ==
    IF lo > hi THEN <<>>
    ELSE IF lo = hi
    THEN [p \in {library.exports[lo].module} |->
             ModuleInfo_new(p, <<ProcedureInfo(library.exports[lo].name,
                                               ProcDigest(library, lo))>>)]
    ELSE MergeModules(ModulesByPath(library, lo, (lo + hi) \div 2),
                      ModulesByPath(library, (lo + hi) \div 2 + 1, hi))

\* CompiledLibrary::into_module_infos: the module infos by their path, which
\* is the order they are yielded in; an export without a procedure root, or
\* with a root outside the forest, is an index out of bounds.
into_module_infos(library) ==
    IF \E i \in 1..Len(library.exports) : IndexPanics(library, i)
    THEN Panic("index out of bounds")
    ELSE Ok(ModulesByPath(library, 1, Len(library.exports)))

\* KernelLibrary::into_parts
into_parts(kernel_library) ==
    <<kernel_library.kernel, kernel_library.kernel_info, kernel_library.library.mast_forest>>

\* ------------------------------------------------------------- wire format

\* The byte stream is a sequence of fields: an unsigned number, a module path
\* or a digest.
U(n) == <<"u", n>>
S(path) == <<"s", path>>
D(digest) == <<"d", digest>>

\* AstSerdeOptions
SerdeOptions == [debug_info : BOOLEAN]

\* The fields of seqs[lo..hi] one after another.
RECURSIVE FlattenRange(_, _, _)
FlattenRange(seqs, lo, hi) ==
    IF lo > hi THEN <<>>
    ELSE IF lo = hi THEN seqs[lo]
    ELSE LET mid == (lo + hi) \div 2 IN
         FlattenRange(seqs, lo, mid) \o FlattenRange(seqs, mid + 1, hi)

Flatten(seqs) == FlattenRange(seqs, 1, Len(seqs))

\* node ::= u8(tag) || payload
WriteNode(node) ==
    CASE node.tag = "Block"    -> <<U(0), U(node.ops)>>
      [] node.tag = "Join"     -> <<U(1), U(node.children[1]), U(node.children[2])>>
      [] node.tag = "Split"    -> <<U(2), U(node.children[1]), U(node.children[2])>>
      [] node.tag = "Loop"     -> <<U(3), U(node.body)>>
      [] node.tag = "Call"     -> <<U(4), U(node.callee), U(IF node.is_syscall THEN 1 ELSE 0)>>
      [] node.tag = "Dyn"      -> <<U(5)>>
      [] node.tag = "External" -> <<U(6), D(node.digest)>>

\* mast_forest ::= uvarint(num_nodes) || node* || uvarint(num_roots) || root_id*
MastForest_write_into(mast_forest) ==
    <<U(Len(mast_forest.nodes))>>
    \o Flatten([i \in 1..Len(mast_forest.nodes) |-> WriteNode(mast_forest.nodes[i])])
    \o <<U(Len(mast_forest.roots))>>
    \o [i \in 1..Len(mast_forest.roots) |-> U(mast_forest.roots[i])]

\* export ::= fqn_module_path || proc_name
FQN_write_into_with_options(proc_name, options) == <<S(proc_name.module), U(proc_name.name)>>

\* write_into_with_options with the number of exports left out.
CompiledLibrary_write_without_count(library, options) ==
    MastForest_write_into(library.mast_forest)
    \o Flatten([i \in 1..Len(library.exports) |->
                   FQN_write_into_with_options(library.exports[i], options)])

\* CompiledLibrary::write_into_with_options
CompiledLibrary_write_into_with_options(library, options) ==
    MastForest_write_into(library.mast_forest)
    \o <<U(Len(library.exports))>>
    \o Flatten([i \in 1..Len(library.exports) |->
                   FQN_write_into_with_options(library.exports[i], options)])

\* KernelLibrary::write_into_with_options: only the library is written.
KernelLibrary_write_into_with_options(kernel_library, options) ==
    CompiledLibrary_write_into_with_options(kernel_library.library, options)

\* What a reader returns: a value and the position after it, or an error.
Got(v, pos) == [ok |-> TRUE, val |-> v, pos |-> pos]

DeserializationError(kind) == [ok |-> FALSE, panic |-> FALSE,
                               error |-> [err |-> "DeserializationError", kind |-> kind]]

\* One field of the given kind at pos.
ReadField(src, pos, kind) ==
    IF pos > Len(src) THEN DeserializationError("UnexpectedEOF")
    ELSE IF src[pos][1] # kind THEN DeserializationError("InvalidValue")
    ELSE Got(src[pos][2], pos + 1)

\* The number of payload fields that follow a node's tag.
PayloadLen(tag) ==
    CASE tag \in {1, 2, 4} -> 2
      [] tag \in {0, 3, 6} -> 1
      [] OTHER             -> 0

\* The node of the given tag and payload, built by its constructor over the
\* nodes read before it, so that its digest is computed again.
BuildNode(tag, a, b, ns) ==
    CASE tag = 0 -> new_basic_block(a)
      [] tag = 1 -> new_join(<<a, b>>, ns)
      [] tag = 2 -> new_split(<<a, b>>, ns)
      [] tag = 3 -> new_loop(a, ns)
      [] tag = 4 -> IF b = 1 THEN CallNode_new_syscall(a, ns) ELSE CallNode_new(a, ns)
      [] tag = 5 -> new_dyncall
      [] tag = 6 -> new_external(a)

\* What the reader makes of a constructor's result.
BuiltOrInvalid(built, pos) ==
    IF IsErr(built) THEN DeserializationError("InvalidValue") ELSE Got(built, pos)

\* The payload of a node of the given tag, whose first field is at pos.
ReadPayload(src, pos, tag, ns) ==
    IF tag \notin 0..6 THEN DeserializationError("InvalidValue")
    ELSE IF pos + PayloadLen(tag) - 1 > Len(src) THEN DeserializationError("UnexpectedEOF")
    ELSE IF \E k \in 0..(PayloadLen(tag) - 1) : src[pos + k][1] # (IF tag = 6 THEN "d" ELSE "u")
    THEN DeserializationError("InvalidValue")
    ELSE BuiltOrInvalid(BuildNode(tag,
                                  IF PayloadLen(tag) > 0 THEN src[pos][2] ELSE 0,
                                  IF PayloadLen(tag) > 1 THEN src[pos + 1][2] ELSE 0,
                                  ns),
                        pos + PayloadLen(tag))

\* A reader is a chain of steps, each with a ? that returns the error of the
\* step before it; a chain is written last step first.

\* One node at pos: the tag, then the payload.
NodeAfterTag(src, tag, ns) ==
    IF ~tag.ok THEN tag ELSE ReadPayload(src, tag.pos, tag.val, ns)

ReadNode(src, pos, ns) == NodeAfterTag(src, ReadField(src, pos, "u"), ns)

\* push of the item just read onto those read so far.
PushRead(acc, item) ==
    IF ~item.ok THEN item ELSE Got(Append(acc.val, item.val), item.pos)

\* The next count nodes after those read so far (acc), stopping at an error.
RECURSIVE ReadNodes(_, _, _)
ReadNodes(src, acc, count) ==
    IF ~acc.ok \/ count = 0 THEN acc
    ELSE IF count = 1 THEN PushRead(acc, ReadNode(src, acc.pos, acc.val))
    ELSE ReadNodes(src, ReadNodes(src, acc, count \div 2), count - count \div 2)

\* The ids of count procedure roots at pos, each the id of one of num_nodes nodes.
ReadRoots(src, pos, count, num_nodes) ==
    IF pos + count - 1 > Len(src) THEN DeserializationError("UnexpectedEOF")
    ELSE IF \E i \in 1..count : \/ src[pos + i - 1][1] # "u"
                                \/ src[pos + i - 1][2] >= num_nodes
    THEN DeserializationError("InvalidValue")
    ELSE Got([i \in 1..count |-> src[pos + i - 1][2]], pos + count)

ForestAfterRoots(ns, roots) ==
    IF ~roots.ok THEN roots ELSE Got(Forest(ns.val, roots.val), roots.pos)

ForestAfterNumRoots(src, ns, num_roots) ==
    IF ~num_roots.ok THEN num_roots
    ELSE ForestAfterRoots(ns, ReadRoots(src, num_roots.pos, num_roots.val, Len(ns.val)))

ForestAfterNodes(src, ns) ==
    IF ~ns.ok THEN ns ELSE ForestAfterNumRoots(src, ns, ReadField(src, ns.pos, "u"))

ForestAfterNumNodes(src, num_nodes) ==
    IF ~num_nodes.ok THEN num_nodes
    ELSE ForestAfterNodes(src, ReadNodes(src, Got(<<>>, num_nodes.pos), num_nodes.val))

\* MastForest::read_from
MastForest_read_from(src, pos) == ForestAfterNumNodes(src, ReadField(src, pos, "u"))

ProcNameAfterName(module, name) ==
    IF ~name.ok THEN name ELSE Got(FQN(module.val, name.val), name.pos)

ProcNameAfterModule(src, module) ==
    IF ~module.ok THEN module
    ELSE ProcNameAfterName(module, ReadField(src, module.pos, "u"))

\* FullyQualifiedProcedureName::read_from_with_options
FQN_read_from_with_options(src, pos, options) ==
    ProcNameAfterModule(src, ReadField(src, pos, "s"))

\* The next count exports after those read so far (acc), stopping at an error.
RECURSIVE ReadExports(_, _, _, _)
ReadExports(src, acc, count, options) ==
    IF ~acc.ok \/ count = 0 THEN acc
    ELSE IF count = 1
    THEN PushRead(acc, FQN_read_from_with_options(src, acc.pos, options))
    ELSE ReadExports(src, ReadExports(src, acc, count \div 2, options),
                     count - count \div 2, options)

\* Ok(Self { mast_forest, exports }): whatever was read is returned.
LibraryAfterExports(mast_forest, exports) ==
    IF ~exports.ok THEN exports
    ELSE Ok([mast_forest |-> mast_forest.val, exports |-> exports.val])

LibraryAfterNumExports(src, options, mast_forest, num_exports) ==
    IF ~num_exports.ok THEN num_exports
    ELSE LibraryAfterExports(mast_forest,
             ReadExports(src, Got(<<>>, num_exports.pos), num_exports.val, options))

LibraryAfterForest(src, options, mast_forest) ==
    IF ~mast_forest.ok THEN mast_forest
    ELSE LibraryAfterNumExports(src, options, mast_forest,
                                ReadField(src, mast_forest.pos, "u"))

\* CompiledLibrary::read_from_with_options
CompiledLibrary_read_from_with_options(src, options) ==
    LibraryAfterForest(src, options, MastForest_read_from(src, 1))

\* map_err of KernelLibrary::read_from_with_options; a panic is no error value.
InvalidValueFrom(kernel_library) ==
    IF kernel_library.ok \/ kernel_library.panic THEN kernel_library
    ELSE [ok |-> FALSE, panic |-> FALSE,
          error |-> [err |-> "DeserializationError", kind |-> "InvalidValue",
                     cause |-> kernel_library.error]]

KernelAfterLibrary(library) ==
    IF ~library.ok THEN library
    ELSE InvalidValueFrom(KernelLibrary_try_from(library.val))

\* KernelLibrary::read_from_with_options
KernelLibrary_read_from_with_options(src, options) ==
    KernelAfterLibrary(CompiledLibrary_read_from_with_options(src, options))

\* -------------------------------------------------------- library inputs

\* The forest of n different basic blocks of which the first r are procedure roots.
BlockForest(n, r) ==
    Forest([i \in 1..n |-> new_basic_block(i)], [i \in 1..r |-> i - 1])

\* A forest with one node of every variant; the join and the call are roots.
MixedForest ==
    LET n1 == <<new_basic_block(1)>>
        n2 == Append(n1, new_external(<<"raw", 1>>))
        n3 == Append(n2, new_join(<<0, 1>>, n2))
        n4 == Append(n3, new_split(<<1, 0>>, n3))
        n5 == Append(n4, new_loop(2, n4))
        n6 == Append(n5, CallNode_new(3, n5))
        n7 == Append(n6, CallNode_new_syscall(0, n6))
        n8 == Append(n7, new_dyncall)
    IN  Forest(n8, <<2, 5>>)

\* The numbers of exports around the limit of a kernel.
LongLens == (MAX_NUM_PROCEDURES - 1)..(MAX_NUM_PROCEDURES + MaxOver)

\* n exports of the kernel module, but for export p (if any), of another module.
LongExports(n, p) ==
    [i \in 1..n |-> FQN(IF i = p THEN "lib::a" ELSE KernelPath, i)]

ProcNames == 1..2

SmallExportLists ==
    UNION {[1..n -> {FQN(m, x) : m \in ModulePaths, x \in ProcNames}] :
              n \in 0..MaxSmallExports}

SmallForests ==
    UNION {{BlockForest(n, r) : r \in 0..n} : n \in 0..MaxSmallExports}
    \cup {MixedForest}

\* The forests and lists of exports handed to CompiledLibrary::new: any small
\* forest with any small list, and a forest of n roots with n exports around
\* the kernel's limit.
LibInputs ==
    (SmallForests \X SmallExportLists)
    \cup UNION {{<<BlockForest(n, n), LongExports(n, p)>> : p \in {0, 1, n}} :
                   n \in LongLens}

\* The byte streams a reader may be given: what a writer wrote for any of
\* these forests and lists of exports, and for a long list of exports with one
\* root too few, whole or cut short by one field.
UntrustedBytes ==
    LET pairs == LibInputs
                 \cup {<<BlockForest(n, n - 1), LongExports(n, 0)>> : n \in LongLens}
        whole == {CompiledLibrary_write_into_with_options(
                      [mast_forest |-> x[1], exports |-> x[2]], [debug_info |-> FALSE]) :
                      x \in pairs}
    IN  whole \cup {SubSeq(w, 1, Len(w) - 1) : w \in whole}

\* ------------------------------------------------------- library actions

Outcome(r) ==
    IF r.ok THEN [ok |-> TRUE, panic |-> FALSE]
    ELSE [ok |-> FALSE, panic |-> r.panic, error |-> r.error]

ValueOf(r) == IF r.ok THEN r.val ELSE NoValue

\* Nothing is in hand: no library, no kernel library, no bytes.
Idle == libres.op = "none"

LibNew ==
    /\ Idle
    /\ \E x \in LibInputs :
        LET r == CompiledLibrary_new(x[1], x[2]) IN
        /\ lib' = ValueOf(r)
        /\ libres' = [op |-> "new", out |-> Outcome(r),
                      input |-> [mast_forest |-> x[1], exports |-> x[2]]]
    /\ UNCHANGED <<klib, bytes, written>>
    /\ UNCHANGED otherThanLib

LibWrite ==
    /\ lib # NoValue
    /\ \E o \in SerdeOptions :
        /\ bytes' = CompiledLibrary_write_into_with_options(lib, o)
        /\ written' = [kind |-> "library", val |-> lib, options |-> o]
        /\ libres' = [op |-> "write", out |-> [ok |-> TRUE, panic |-> FALSE]]
    /\ UNCHANGED <<lib, klib>>
    /\ UNCHANGED otherThanLib

LibRead ==
    /\ bytes # NoValue
    /\ \E o \in SerdeOptions :
        LET r == CompiledLibrary_read_from_with_options(bytes, o) IN
        /\ lib' = ValueOf(r)
        /\ libres' = [op |-> "read", out |-> Outcome(r), options |-> o]
    /\ klib' = NoValue
    /\ UNCHANGED <<bytes, written>>
    /\ UNCHANGED otherThanLib

ReceiveBytes ==
    /\ Idle
    /\ \E b \in UntrustedBytes : bytes' = b
    /\ libres' = [op |-> "receive", out |-> [ok |-> TRUE, panic |-> FALSE]]
    /\ UNCHANGED <<lib, klib, written>>
    /\ UNCHANGED otherThanLib

\* Everything in hand is dropped.
Drop ==
    /\ ~Idle
    /\ lib' = NoValue
    /\ klib' = NoValue
    /\ bytes' = NoValue
    /\ written' = NoValue
    /\ libres' = [op |-> "none", out |-> [ok |-> TRUE, panic |-> FALSE]]
    /\ UNCHANGED otherThanLib

KernelFrom ==
    /\ lib # NoValue
    /\ LET r == KernelLibrary_try_from(lib) IN
        /\ klib' = ValueOf(r)
        /\ libres' = [op |-> "kernel_from", out |-> Outcome(r), input |-> lib]
    /\ lib' = NoValue
    /\ UNCHANGED <<bytes, written>>
    /\ UNCHANGED otherThanLib

\* into_module_infos consumes the library.
LibIntoModuleInfos ==
    /\ lib # NoValue
    /\ libres' = [op |-> "module_infos", out |-> Outcome(into_module_infos(lib)),
                  input |-> lib, infos |-> ValueOf(into_module_infos(lib))]
    /\ lib' = NoValue
    /\ UNCHANGED <<klib, bytes, written>>
    /\ UNCHANGED otherThanLib

KernelWrite ==
    /\ klib # NoValue
    /\ \E o \in SerdeOptions :
        /\ bytes' = KernelLibrary_write_into_with_options(klib, o)
        /\ written' = [kind |-> "kernel", val |-> klib, options |-> o]
        /\ libres' = [op |-> "kernel_write", out |-> [ok |-> TRUE, panic |-> FALSE]]
    /\ UNCHANGED <<lib, klib>>
    /\ UNCHANGED otherThanLib

KernelRead ==
    /\ bytes # NoValue
    /\ \E o \in SerdeOptions :
        LET read == CompiledLibrary_read_from_with_options(bytes, o)
            r == KernelLibrary_read_from_with_options(bytes, o)
        IN  /\ klib' = ValueOf(r)
            /\ libres' = [op |-> "kernel_read", out |-> Outcome(r), options |-> o,
                          input |-> ValueOf(read)]
    /\ lib' = NoValue
    /\ UNCHANGED <<bytes, written>>
    /\ UNCHANGED otherThanLib

InitLib ==
    /\ lib = NoValue
    /\ klib = NoValue
    /\ bytes = NoValue
    /\ written = NoValue
    /\ libres = [op |-> "none", out |-> [ok |-> TRUE, panic |-> FALSE]]

NextLib ==
    \/ LibNew
    \/ LibWrite
    \/ LibRead
    \/ ReceiveBytes
    \/ KernelFrom
    \/ LibIntoModuleInfos
    \/ KernelWrite
    \/ KernelRead
    \/ Drop

\* ------------------------------------------------------- nodes by value

\* The forests a call node is built over.
NodeContexts ==
    {<<new_basic_block(1)>>,
     <<new_basic_block(1), CallNode_new(0, <<new_basic_block(1)>>)>>}

\* Lists of decorator ids: the spans of at most MaxDecorators ids.
DecoratorLists ==
    {[i \in 1..n |-> a + i - 1] : a \in 0..MaxDecorators - 1, n \in 0..MaxDecorators}

HoldsNode == held # NoValue

\* CallNode::new or CallNode::new_syscall, over a valid callee or the first
\* id that is not valid.
NodeNewCall ==
    /\ \E ns \in NodeContexts, callee \in 0..MaxNodes, is_syscall \in BOOLEAN :
          LET built == IF is_syscall THEN CallNode_new_syscall(callee, ns)
                                     ELSE CallNode_new(callee, ns)
          IN  /\ callee <= Len(ns)
              /\ held' = IF IsErr(built) THEN NoValue ELSE built
              /\ heldWas' = [op |-> IF is_syscall THEN "new_syscall" ELSE "new",
                             callee |-> callee, len |-> Len(ns), result |-> built]
    /\ UNCHANGED otherThanNode

NodeNewExternal ==
    /\ \E d \in ForeignDigests :
          /\ held' = ExternalNode_new(d)
          /\ heldWas' = [op |-> "new_external", procedure_hash |-> d]
    /\ UNCHANGED otherThanNode

NodeSetBeforeEnter ==
    /\ HoldsNode
    /\ \E decorator_ids \in DecoratorLists :
          /\ held' = IF held.tag = "Call"
                     THEN CallNode_set_before_enter(held, decorator_ids)
                     ELSE ExternalNode_set_before_enter(held, decorator_ids)
          /\ heldWas' = [op |-> "set_before_enter", arg |-> decorator_ids, node |-> held]
    /\ UNCHANGED otherThanNode

NodeSetAfterExit ==
    /\ HoldsNode
    /\ \E decorator_ids \in DecoratorLists :
          /\ held' = IF held.tag = "Call"
                     THEN CallNode_set_after_exit(held, decorator_ids)
                     ELSE ExternalNode_set_after_exit(held, decorator_ids)
          /\ heldWas' = [op |-> "set_after_exit", arg |-> decorator_ids, node |-> held]
    /\ UNCHANGED otherThanNode

InitNode ==
    /\ held = NoValue
    /\ heldWas = [op |-> "none"]

NextNode ==
    \/ NodeNewCall
    \/ NodeNewExternal
    \/ NodeSetBeforeEnter
    \/ NodeSetAfterExit

\* ---------------------------------------------------------------- lowering

\* MastForestBuilder::ensure_*: the node a constructor built is looked up by
\* its digest and appended when the forest has none; a constructor's error is
\* returned with the builder as it was.
EnsureNode(b, built) ==
    IF IsErr(built)
    THEN [nodes |-> b.nodes, index |-> b.index, err |-> built]
    ELSE add_node(b.nodes, b.index, built)

ensure_block(b, ops) == EnsureNode(b, new_basic_block(ops))
ensure_join(b, left, right) == EnsureNode(b, new_join(<<left, right>>, b.nodes))
ensure_call(b, callee) == EnsureNode(b, CallNode_new(callee, b.nodes))
ensure_syscall(b, callee) == EnsureNode(b, CallNode_new_syscall(callee, b.nodes))
ensure_external(b, digest) == EnsureNode(b, new_external(digest))
ensure_dyn(b) == EnsureNode(b, new_dyncall)

\* Sequential composition: a left-leaning chain Join(Join(a, b), c) over the
\* ids still to come, acc being the root of what was composed so far.
RECURSIVE JoinLeft(_, _, _)
JoinLeft(b, acc, rest) ==
    IF rest = <<>>
    THEN [nodes |-> b.nodes, index |-> b.index, id |-> acc]
    ELSE JoinLeft(ensure_join(b, acc, Head(rest)),
                  ensure_join(b, acc, Head(rest)).id,
                  Tail(rest))

\* One round of a balanced chain: neighbours are joined in pairs, an odd last
\* id is carried to the next round.
RECURSIVE JoinPairs(_, _, _)
JoinPairs(b, ids, out) ==
    IF Len(ids) = 0 THEN [b |-> b, ids |-> out]
    ELSE IF Len(ids) = 1 THEN [b |-> b, ids |-> Append(out, ids[1])]
    ELSE JoinPairs(ensure_join(b, ids[1], ids[2]),
                   SubSeq(ids, 3, Len(ids)),
                   Append(out, ensure_join(b, ids[1], ids[2]).id))

\* A balanced chain of joins over ids.
RECURSIVE JoinBalanced(_, _)
JoinBalanced(b, ids) ==
    IF Len(ids) = 1
    THEN [nodes |-> b.nodes, index |-> b.index, id |-> ids[1]]
    ELSE JoinBalanced(JoinPairs(b, ids, <<>>).b, JoinPairs(b, ids, <<>>).ids)

\* repeat N body: a balanced chain of joins whose leaves are all the body.
lower_repeat(b, count, body) == JoinBalanced(b, [i \in 1..count |-> body])

\* N exec instructions in a row, each resolved to the same procedure root:
\* the roots are composed in sequence.
lower_exec_sequence(b, count, body) ==
    JoinLeft(b, body, [i \in 1..count - 1 |-> body])

KernelProcNotFound(name) == [err |-> "KernelProcNotFound", name |-> name]

\* Assembler::resolve_target for a syscall by name and for a target given by
\* its MAST root: the id of the node that carries the digest, an External node
\* being inserted when the forest has none.
\* A local or module-qualified name is looked up in a procedure table and
\* gives the root id of a procedure already in the forest.
resolve_target(kind, callee, k, b) ==
    IF callee.by = "name"
    THEN IF callee.name \in DOMAIN k
         THEN ensure_external(b, k[callee.name])
         ELSE [nodes |-> b.nodes, index |-> b.index, err |-> KernelProcNotFound(callee.name)]
    ELSE IF callee.by \in {"local", "qualified"}
    THEN [nodes |-> b.nodes, index |-> b.index, id |-> callee.id]
    ELSE ensure_external(b, callee.root)

\* The match of Assembler::invoke on the kind, after resolve_target returned
\* the builder and the id in resolved.
InvokeResolved(kind, resolved) ==
    CASE kind \in {"ProcRef", "Exec"} -> resolved
      [] kind = "Call"    -> ensure_call(resolved, resolved.id)
      [] kind = "SysCall" -> ensure_syscall(resolved, resolved.id)

\* The ? of Assembler::invoke: an error of resolve_target is returned as it is.
InvokeAfterResolve(kind, resolved) ==
    IF "err" \in DOMAIN resolved THEN resolved ELSE InvokeResolved(kind, resolved)

\* Assembler::invoke
invoke(kind, callee, k, b) == InvokeAfterResolve(kind, resolve_target(kind, callee, k, b))

\* Assembler::dynexec
dynexec(b) == ensure_dyn(b)

\* The ? of Assembler::dyncall after ensure_dyn.
DynCallAfterDyn(with_dyn) ==
    IF "err" \in DOMAIN with_dyn THEN with_dyn ELSE ensure_call(with_dyn, with_dyn.id)

\* Assembler::dyncall
dyncall(b) == DynCallAfterDyn(ensure_dyn(b))

\* RpoDigest::iter: the four elements of a digest, in order.
DigestElements(digest) == [i \in 1..4 |-> <<"elem", digest, i>>]

\* Operation::Push
Push(elem) == [op |-> "Push", value |-> elem]

\* procref_mast_root pushing the elements of the root last to first.
procref_mast_root_reversed(mast_root, ops) ==
    ops \o [i \in 1..4 |-> Push(DigestElements(mast_root)[5 - i])]

\* Assembler::procref_mast_root: the operations of the block after push_ops.
procref_mast_root(mast_root, ops) ==
    ops \o [i \in 1..4 |-> Push(DigestElements(mast_root)[i])]

\* Assembler::procref after resolve_target: the builder as resolve_target left
\* it, with the operations of the basic block.
ProcRefResolved(resolved, ops) ==
    IF "err" \in DOMAIN resolved
    THEN [nodes |-> resolved.nodes, index |-> resolved.index, err |-> resolved.err,
          ops |-> ops]
    ELSE [nodes |-> resolved.nodes, index |-> resolved.index, id |-> resolved.id,
          ops |-> procref_mast_root(
                      MastNodeDigest(get_node_by_id(resolved.nodes, resolved.id)), ops)]

\* Assembler::procref
procref(callee, k, b, ops) == ProcRefResolved(resolve_target("ProcRef", callee, k, b), ops)

\* ------------------------------------------------------- lowering: inputs

KernelNames == {"foo", "bar"}

\* The digest of the kernel procedure of a name; kernel code is in no forest
\* of the model.
KernelDigest(name) == IF name = "foo" THEN <<"raw", 0>> ELSE <<"raw", 1>>

\* The kernels an assembler is made with: the empty one, and one that
\* exports foo and not bar.
Kernels == {[n \in names |-> KernelDigest(n)] : names \in {{}, {"foo"}}}

\* The MAST roots a program may name: the digest of a kernel procedure and
\* the digest of a syscall to it.
RootInputs ==
    {KernelDigest("foo"),
     MastNodeDigest(CallNode_new_syscall(0, <<new_external(KernelDigest("foo"))>>))}

\* The targets of a procref: a local name, a module-qualified name (each the
\* root of a procedure of the forest), and MAST roots, the root of a Dyn node
\* among them.
ProcRefTargets(ids) ==
    {[by |-> how, id |-> i] : how \in {"local", "qualified"}, i \in ids}
    \cup {[by |-> "root", root |-> d] : d \in {KernelDigest("foo"), DynNodeDigest}}

\* Invocation targets: a syscall names its procedure, the other kinds give a root.
Targets(kind) ==
    IF kind = "SysCall"
    THEN {[by |-> "name", name |-> n] : n \in KernelNames}
    ELSE {[by |-> "root", root |-> d] : d \in RootInputs}

InvokeKinds == {"Exec", "Call", "SysCall", "ProcRef"}

\* ------------------------------------------------------ lowering: actions

\* What a lowering leaves behind: the builder, and the record of the call.
Lowered(what, r) ==
    /\ Len(r.nodes) <= MaxAsmNodes
    /\ builder' = [nodes |-> r.nodes, index |-> r.index]
    /\ lowered' = [what |-> what,
                   added |-> Len(r.nodes) - Len(builder.nodes),
                   ok |-> "err" \notin DOMAIN r,
                   result |-> IF "err" \in DOMAIN r THEN r.err ELSE r.id]
    /\ UNCHANGED <<asmKernel, blockOps, otherThanAsm>>

\* Assembler::with_kernel, before anything is assembled.
AsmWithKernel ==
    /\ lowered.what.op = "new"
    /\ \E k \in Kernels :
          /\ asmKernel' = k
          /\ lowered' = [what |-> [op |-> "with_kernel"], added |-> 0,
                         ok |-> TRUE, result |-> 0]
    /\ UNCHANGED <<builder, blockOps, otherThanAsm>>

AsmBlock ==
    \E ops \in 1..MaxBlocks :
        Lowered([op |-> "block", ops |-> ops], ensure_block(builder, ops))

BuilderIds == 0..Len(builder.nodes) - 1

AsmRepeat ==
    \E count \in 1..MaxRepeat, body \in BuilderIds :
        Lowered([op |-> "repeat", count |-> count, body |-> body],
                lower_repeat(builder, count, body))

AsmExecSequence ==
    \E count \in 1..MaxRepeat, body \in BuilderIds :
        Lowered([op |-> "exec_sequence", count |-> count, body |-> body],
                lower_exec_sequence(builder, count, body))

AsmInvoke ==
    \E kind \in InvokeKinds :
        \E callee \in Targets(kind) :
            Lowered([op |-> "invoke", kind |-> kind, callee |-> callee],
                    invoke(kind, callee, asmKernel, builder))

AsmDynExec == Lowered([op |-> "dynexec"], dynexec(builder))

AsmDynCall == Lowered([op |-> "dyncall"], dyncall(builder))

\* procref: the builder and the basic block are left as procref made them.
AsmProcRef ==
    \E callee \in ProcRefTargets(BuilderIds) :
        /\ Len(blockOps) + 4 <= 4 * MaxProcRefs
        /\ Len(procref(callee, asmKernel, builder, blockOps).nodes) <= MaxAsmNodes
        /\ builder' = [nodes |-> procref(callee, asmKernel, builder, blockOps).nodes,
                       index |-> procref(callee, asmKernel, builder, blockOps).index]
        /\ blockOps' = procref(callee, asmKernel, builder, blockOps).ops
        /\ lowered' = [what |-> [op |-> "procref", callee |-> callee],
                       added |-> Len(procref(callee, asmKernel, builder, blockOps).nodes)
                                 - Len(builder.nodes),
                       ok |-> "err" \notin DOMAIN procref(callee, asmKernel, builder, blockOps),
                       result |-> 0]
        /\ UNCHANGED <<asmKernel, otherThanAsm>>

InitAsm ==
    /\ builder = [nodes |-> <<>>, index |-> <<>>]
    /\ asmKernel = <<>>
    /\ blockOps = <<>>
    /\ lowered = [what |-> [op |-> "new"], added |-> 0, ok |-> TRUE, result |-> 0]

NextAsm ==
    \/ AsmWithKernel
    \/ AsmBlock
    \/ AsmRepeat
    \/ AsmExecSequence
    \/ AsmInvoke
    \/ AsmDynExec
    \/ AsmDynCall
    \/ AsmProcRef

\* ------------------------------------------------------------------ tokens

\* A text is the sequence of its characters.
AsciiLetters ==
    {"a", "b", "c", "d", "e", "f", "g", "h", "i", "j", "k", "l", "m",
     "n", "o", "p", "q", "r", "s", "t", "u", "v", "w", "x", "y", "z"}

AsciiDigits == {"0", "1", "2", "3", "4", "5", "6", "7", "8", "9"}

\* char::is_ascii_alphabetic
is_ascii_alphabetic(c) == c \in AsciiLetters

\* char::is_ascii_alphanumeric
is_ascii_alphanumeric(c) == c \in AsciiLetters \cup AsciiDigits

\* char::to_digit(10) of a decimal digit
DigitValue(c) ==
    CASE c = "0" -> 0 [] c = "1" -> 1 [] c = "2" -> 2 [] c = "3" -> 3 [] c = "4" -> 4
      [] c = "5" -> 5 [] c = "6" -> 6 [] c = "7" -> 7 [] c = "8" -> 8 [] c = "9" -> 9

\* str::split on one character: the pieces between the separators, empty
\* pieces included; current is the piece being read.
RECURSIVE SplitChar(_, _, _, _)
SplitChar(text, sep, current, pieces) ==
    IF text = <<>> THEN Append(pieces, current)
    ELSE IF Head(text) = sep THEN SplitChar(Tail(text), sep, <<>>, Append(pieces, current))
    ELSE SplitChar(Tail(text), sep, Append(current, Head(text)), pieces)

\* MODULE_PATH_DELIM
MODULE_PATH_DELIM == <<":", ":">>

\* str::split on MODULE_PATH_DELIM: matches are taken leftmost and do not overlap.
RECURSIVE SplitPath(_, _, _)
SplitPath(text, current, pieces) ==
    IF text = <<>> THEN Append(pieces, current)
    ELSE IF Len(text) >= 2 /\ SubSeq(text, 1, 2) = MODULE_PATH_DELIM
         THEN SplitPath(SubSeq(text, 3, Len(text)), <<>>, Append(pieces, current))
    ELSE SplitPath(Tail(text), Append(current, Head(text)), pieces)

\* A u32 is kept as two decimal limbs: value = hi * 100000 + lo.
U32(hi, lo) == [hi |-> hi, lo |-> lo]

\* u32::MAX = 4294967295
U32_MAX == U32(42949, 67295)

\* acc * 10 + digit, not yet checked against u32::MAX.
TimesTenPlus(acc, digit) ==
    U32(acc.hi * 10 + (acc.lo * 10 + digit) \div 100000, (acc.lo * 10 + digit) % 100000)

\* checked_mul(10) and checked_add(digit) fail: the result is above u32::MAX.
Overflows(v) == v.hi > U32_MAX.hi \/ (v.hi = U32_MAX.hi /\ v.lo > U32_MAX.lo)

\* The digit loop of u32::from_str.
RECURSIVE u32_from_digits(_, _)
u32_from_digits(digits, acc) ==
    IF digits = <<>> THEN Ok(acc)
    ELSE IF Head(digits) \notin AsciiDigits THEN Err("InvalidDigit")
    ELSE IF Overflows(TimesTenPlus(acc, DigitValue(Head(digits)))) THEN Err("PosOverflow")
    ELSE u32_from_digits(Tail(digits), TimesTenPlus(acc, DigitValue(Head(digits))))

\* str::parse::<u32>: decimal digits after an optional plus sign.
parse_u32(text) ==
    IF text = <<>> THEN Err("Empty")
    ELSE IF Len(text) = 1 /\ Head(text) \in {"+", "-"} THEN Err("InvalidDigit")
    ELSE IF Head(text) = "+" THEN u32_from_digits(Tail(text), U32(0, 0))
    ELSE u32_from_digits(text, U32(0, 0))

\* Token::new: the parts of the token between the dots.
Token_new(text) == [parts |-> SplitChar(text, ".", <<>>, <<>>)]

\* Token::num_parts
num_parts(token) == Len(token.parts)

\* The constructors of ParsingError, named by kind: the error that
\* ParsingError::extra_param(token) builds is ParsingError("extra_param"); the
\* token and the message are left out.
ParsingError(kind) == [kind |-> kind]

\* The literal true of if.true and while.true.
TrueText == <<"t", "r", "u", "e">>

\* Token::validate_if and Token::validate_while; parts[0] is parts[1] here.
Token_validate_if(token) ==
    CASE num_parts(token) = 1 -> Err(ParsingError("missing_param"))
      [] num_parts(token) = 2 -> IF token.parts[2] # TrueText
                                 THEN Err(ParsingError("invalid_param"))
                                 ELSE Ok(<<>>)
      [] OTHER                -> Err(ParsingError("extra_param"))

Token_validate_while(token) ==
    CASE num_parts(token) = 1 -> Err(ParsingError("missing_param"))
      [] num_parts(token) = 2 -> IF token.parts[2] # TrueText
                                 THEN Err(ParsingError("invalid_param"))
                                 ELSE Ok(<<>>)
      [] OTHER                -> Err(ParsingError("extra_param"))

\* Token::validate_else
Token_validate_else(token) ==
    IF num_parts(token) > 1 THEN Err(ParsingError("extra_param")) ELSE Ok(<<>>)

\* Token::validate_begin
Token_validate_begin(token) ==
    IF num_parts(token) > 1 THEN Err(ParsingError("extra_param")) ELSE Ok(<<>>)

\* Token::validate_end
Token_validate_end(token) ==
    IF num_parts(token) > 1 THEN Err(ParsingError("extra_param")) ELSE Ok(<<>>)

\* Token::parse_repeat
Token_parse_repeat(token) ==
    CASE num_parts(token) = 1 -> Err(ParsingError("missing_param"))
      [] num_parts(token) = 2 -> IF parse_u32(token.parts[2]).ok
                                 THEN Ok(parse_u32(token.parts[2]).val)
                                 ELSE Err(ParsingError("invalid_param"))
      [] OTHER                -> Err(ParsingError("extra_param"))

\* is_valid_label
is_valid_label(label) ==
    IF label = <<>> \/ ~is_ascii_alphabetic(label[1]) THEN FALSE
    ELSE IF ~\A i \in 1..Len(label) : is_ascii_alphanumeric(label[i]) \/ label[i] = "_"
         THEN FALSE
    ELSE TRUE

\* Option<&str>
None == [some |-> FALSE]
Some(v) == [some |-> TRUE, val |-> v]

\* The match of validate_proc_invocation_label on the first two pieces of the
\* label; a piece that is not there is None.
InvocationLabelPieces(label, pieces) ==
    IF Len(pieces) = 1
    THEN IF ~is_valid_label(pieces[1])
         THEN Err(ParsingError("invalid_proc_invocation"))
         ELSE Ok([proc_name |-> pieces[1], module_name |-> None])
    ELSE IF ~is_valid_label(pieces[2]) \/ ~is_valid_label(pieces[1]) \/ Len(pieces) > 2
         THEN Err(ParsingError("invalid_proc_invocation"))
         ELSE Ok([proc_name |-> pieces[2], module_name |-> Some(pieces[1])])

\* validate_proc_invocation_label
validate_proc_invocation_label(label) ==
    IF label = <<>> \/ ~is_ascii_alphabetic(label[1])
    THEN Err(ParsingError("invalid_proc_invocation"))
    ELSE InvocationLabelPieces(label, SplitPath(label, <<>>, <<>>))

\* Token::parse_exec
Token_parse_exec(token) ==
    CASE num_parts(token) = 1 -> Err(ParsingError("missing_param"))
      [] num_parts(token) = 2 -> validate_proc_invocation_label(token.parts[2])
      [] OTHER                -> Err(ParsingError("extra_param"))

\* Token::parse_call
Token_parse_call(token) ==
    CASE num_parts(token) = 1 -> Err(ParsingError("missing_param"))
      [] num_parts(token) = 2 -> validate_proc_invocation_label(token.parts[2])
      [] OTHER                -> Err(ParsingError("extra_param"))

\* Token::parse_syscall without the check of the module name.
Token_parse_syscall_any_module(token) ==
    CASE num_parts(token) = 1 -> Err(ParsingError("missing_param"))
      [] num_parts(token) = 2 ->
            IF ~validate_proc_invocation_label(token.parts[2]).ok
            THEN validate_proc_invocation_label(token.parts[2])
            ELSE Ok(validate_proc_invocation_label(token.parts[2]).val.proc_name)
      [] OTHER                -> Err(ParsingError("extra_param"))

\* Token::parse_syscall
Token_parse_syscall(token) ==
    CASE num_parts(token) = 1 -> Err(ParsingError("missing_param"))
      [] num_parts(token) = 2 ->
            IF ~validate_proc_invocation_label(token.parts[2]).ok
            THEN validate_proc_invocation_label(token.parts[2])
            ELSE IF validate_proc_invocation_label(token.parts[2]).val.module_name.some
                 THEN Err(ParsingError("syscall_with_module_name"))
            ELSE Ok(validate_proc_invocation_label(token.parts[2]).val.proc_name)
      [] OTHER                -> Err(ParsingError("extra_param"))

\* validate_import_path: a path starts with a letter and holds only letters,
\* digits, underscores and colons; AbsolutePath::new_unchecked keeps the text.
validate_import_path(path) ==
    IF path = <<>> \/ ~is_ascii_alphabetic(path[1])
    THEN Err(ParsingError("invalid_module_path"))
    ELSE IF ~(\A i \in 1..Len(path) :
                is_ascii_alphanumeric(path[i]) \/ path[i] = "_" \/ path[i] = ":")
    THEN Err(ParsingError("invalid_module_path"))
    ELSE Ok(path)

\* Token::parse_use
Token_parse_use(token) ==
    CASE num_parts(token) = 1 -> Err(ParsingError("missing_param"))
      [] num_parts(token) = 2 -> validate_import_path(token.parts[2])
      [] OTHER                -> Err(ParsingError("extra_param"))

\* ------------------------------------------------------------- block stack

\* Token::parse_proc for labels shorter than MAX_PROC_NAME_LEN and numbers of
\* locals that fit 32 bits: the label is checked by is_valid_label, the locals
\* are parsed as a number that must not exceed u16::MAX = 65535.
Token_parse_proc(token) ==
    CASE num_parts(token) = 1 -> Err(ParsingError("missing_param"))
      [] num_parts(token) = 2 ->
            IF ~is_valid_label(token.parts[2]) THEN Err(ParsingError("invalid_proc_name"))
            ELSE Ok([label |-> token.parts[2], num_locals |-> U32(0, 0)])
      [] num_parts(token) = 3 ->
            IF ~is_valid_label(token.parts[2]) THEN Err(ParsingError("invalid_proc_name"))
            ELSE IF ~parse_u32(token.parts[3]).ok THEN Err(ParsingError("invalid_proc_locals"))
            ELSE IF parse_u32(token.parts[3]).val.hi > 0
                 THEN Err(ParsingError("too_many_proc_locals"))
            ELSE Ok([label |-> token.parts[2], num_locals |-> parse_u32(token.parts[3]).val])
      [] OTHER -> Err(ParsingError("extra_param"))

Top(st) == st[Len(st)]

\* proc, export and begin open a body at the top of the module.
OpenAtModuleTop(st, state) ==
    IF Top(st) = "ModuleTop" THEN Ok(Append(st, state)) ELSE Err(ParsingError("unexpected_token"))

\* if.true, while.true and repeat are nodes of a body, and push their state.
OpenInBody(st, state) ==
    IF Top(st) = "ModuleTop" THEN Err(ParsingError("unexpected_token")) ELSE Ok(Append(st, state))

\* exec, call and syscall are nodes of a body, and leave the stack alone.
NodeInBody(st) ==
    IF Top(st) = "ModuleTop" THEN Err(ParsingError("unexpected_token")) ELSE Ok(st)

\* use is a declaration of the module: inside a body it is an error.
ImportAtModuleTop(st) ==
    IF Top(st) = "ModuleTop" THEN Ok(st) ELSE Err(ParsingError("import_inside_body"))

\* else taken in both branches of an if.
ElseTransition_in_any_branch(st) ==
    IF Top(st) \in {"IfThen", "IfElse"}
    THEN Ok([st EXCEPT ![Len(st)] = "IfElse"])
    ELSE Err(ParsingError("dangling_else"))

\* else: IfThen becomes IfElse; anywhere else it is an error.
ElseTransition(st) ==
    IF Top(st) = "IfThen"
    THEN Ok([st EXCEPT ![Len(st)] = "IfElse"])
    ELSE Err(ParsingError("dangling_else"))

\* end pops one level.
EndTransition(st) ==
    IF Top(st) = "ModuleTop"
    THEN Err(ParsingError("unexpected_token"))
    ELSE Ok(SubSeq(st, 1, Len(st) - 1))

\* The error for the block that is open when the input ends.
Unmatched(state) ==
    CASE state = "IfThen"     -> ParsingError("unmatched_if")
      [] state = "IfElse"     -> ParsingError("unmatched_else")
      [] state = "WhileBody"  -> ParsingError("unmatched_while")
      [] state = "RepeatBody" -> ParsingError("unmatched_repeat")
      [] state = "ProcBody"   -> ParsingError("unmatched_proc")
      [] state = "BeginBody"  -> ParsingError("unmatched_begin")

\* The end of input taken with blocks open.
AtEof_with_open_blocks(st) == Ok(st)

\* At the end of input the top must be ModuleTop.
AtEof(st) == IF Top(st) = "ModuleTop" THEN Ok(st) ELSE Err(Unmatched(Top(st)))

\* ---------------------------------------------------------- parser: inputs

\* The control tokens: Token::IF and the like.
Keyword ==
    [if |-> <<"i", "f">>, else |-> <<"e", "l", "s", "e">>,
     while |-> <<"w", "h", "i", "l", "e">>, repeat |-> <<"r", "e", "p", "e", "a", "t">>,
     end |-> <<"e", "n", "d">>, proc |-> <<"p", "r", "o", "c">>,
     export |-> <<"e", "x", "p", "o", "r", "t">>, begin |-> <<"b", "e", "g", "i", "n">>,
     exec |-> <<"e", "x", "e", "c">>, call |-> <<"c", "a", "l", "l">>,
     syscall |-> <<"s", "y", "s", "c", "a", "l", "l">>, use |-> <<"u", "s", "e">>]

\* The keyword alone, and the keyword, a dot and each of the parameter texts.
TokenTexts(keyword, params) == {keyword} \cup {keyword \o <<".">> \o p : p \in params}

ConditionParams == {TrueText, <<"1">>, <<>>, TrueText \o <<".">> \o TrueText}

NoParams == {<<"x">>}

\* Labels of an invocation: local names, qualified names, and malformed ones.
InvocationLabels ==
    {<<"a">>, <<"a", "1">>, <<"a", "_">>, <<"1", "a">>, <<"_", "a">>, <<>>,
     <<"m", ":", ":", "p">>, <<"m", ":", ":", "p", ":", ":", "q">>,
     <<"m", ":", ":">>, <<":", ":", "p">>, <<"m", ":", "p">>, <<"m", ":", ":", "1">>,
     <<"m", ":", ":", ":", "p">>, <<"a", ".", "b">>}

\* Paths of an import: plain, nested, delimited at either end, and malformed.
ImportPaths ==
    {<<"m">>, <<"m", ":", ":", "n">>, <<"m", ":", ":">>, <<":", ":", "m">>,
     <<"m", ":", ":", "n", ":", ":">>, <<"1", "m">>, <<"m", "-">>, <<>>, <<"m", ".", "n">>}

\* --------------------------------------------------------- parser: actions

Parsing == parser.status = "parsing"

\* One token was read: validated is what the token's validator returned, moved
\* is what the block stack makes of a valid token.
Advance(keyword, text, validated, moved) ==
    /\ Parsing
    /\ lastRead' = [keyword |-> keyword, text |-> text, result |-> validated]
    /\ IF ~validated.ok
       THEN parser' = [status |-> "failed", error |-> validated.error] /\ blocks' = blocks
       ELSE IF ~moved.ok
       THEN parser' = [status |-> "failed", error |-> moved.error] /\ blocks' = blocks
       ELSE /\ Len(moved.val) <= MaxDepth + 1
            /\ blocks' = moved.val
            /\ parser' = parser
    /\ UNCHANGED otherThanParse

\* Names and locals of a procedure, well formed and not.
ReadProc ==
    \E text \in UNION {TokenTexts(Keyword[k],
                                  {<<"a">>, <<"1">>, <<"a", ".", "2">>, <<"a", ".", "x">>,
                                   <<"a", ".", "2", ".", "2">>}) : k \in {"proc", "export"}} :
        Advance("proc", text, Token_parse_proc(Token_new(text)),
                OpenAtModuleTop(blocks, "ProcBody"))

ReadBegin ==
    \E text \in TokenTexts(Keyword["begin"], NoParams) :
        Advance("begin", text, Token_validate_begin(Token_new(text)),
                OpenAtModuleTop(blocks, "BeginBody"))

ReadIf ==
    \E text \in TokenTexts(Keyword["if"], ConditionParams) :
        Advance("if", text, Token_validate_if(Token_new(text)),
                OpenInBody(blocks, "IfThen"))

ReadElse ==
    \E text \in TokenTexts(Keyword["else"], NoParams) :
        Advance("else", text, Token_validate_else(Token_new(text)),
                ElseTransition(blocks))

ReadWhile ==
    \E text \in TokenTexts(Keyword["while"], ConditionParams) :
        Advance("while", text, Token_validate_while(Token_new(text)),
                OpenInBody(blocks, "WhileBody"))

\* Counts of a repeat: zero, small counts, signs, no digits, letters, the
\* largest u32 and the number after it, and a count with one parameter more.
ReadRepeat ==
    \E text \in TokenTexts(Keyword["repeat"],
                           {<<"0">>, <<"1">>, <<"2">>, <<"0", "3">>, <<"+", "1">>, <<"-", "1">>,
                            <<"+">>, <<>>, <<"x">>, <<"1", "x">>,
                            <<"4", "2", "9", "4", "9", "6", "7", "2", "9", "5">>,
                            <<"4", "2", "9", "4", "9", "6", "7", "2", "9", "6">>,
                            <<"1", ".", "2">>}) :
        Advance("repeat", text, Token_parse_repeat(Token_new(text)),
                OpenInBody(blocks, "RepeatBody"))

ReadExec ==
    \E text \in TokenTexts(Keyword["exec"], InvocationLabels) :
        Advance("exec", text, Token_parse_exec(Token_new(text)), NodeInBody(blocks))

ReadCall ==
    \E text \in TokenTexts(Keyword["call"], InvocationLabels) :
        Advance("call", text, Token_parse_call(Token_new(text)), NodeInBody(blocks))

ReadSysCall ==
    \E text \in TokenTexts(Keyword["syscall"], InvocationLabels) :
        Advance("syscall", text, Token_parse_syscall(Token_new(text)), NodeInBody(blocks))

ReadUse ==
    \E text \in TokenTexts(Keyword["use"], ImportPaths) :
        Advance("use", text, Token_parse_use(Token_new(text)), ImportAtModuleTop(blocks))

ReadEnd ==
    \E text \in TokenTexts(Keyword["end"], NoParams) :
        Advance("end", text, Token_validate_end(Token_new(text)), EndTransition(blocks))

\* The input ends: the source is accepted, or an open block is reported.
ReadEof ==
    /\ Parsing
    /\ lastRead' = [keyword |-> "eof", text |-> <<>>, result |-> Ok(<<>>)]
    /\ parser' = IF AtEof(blocks).ok
                 THEN [status |-> "accepted"]
                 ELSE [status |-> "failed", error |-> AtEof(blocks).error]
    /\ blocks' = blocks
    /\ UNCHANGED otherThanParse

InitParse ==
    /\ blocks = <<"ModuleTop">>
    /\ parser = [status |-> "parsing"]
    /\ lastRead = [keyword |-> "none", text |-> <<>>, result |-> Ok(<<>>)]

NextParse ==
    \/ ReadProc
    \/ ReadBegin
    \/ ReadIf
    \/ ReadElse
    \/ ReadWhile
    \/ ReadRepeat
    \/ ReadExec
    \/ ReadCall
    \/ ReadSysCall
    \/ ReadUse
    \/ ReadEnd
    \/ ReadEof

\* -------------------------------------------------------------- advice map

\* AdviceMap::new
AdviceMap_new == <<>>

\* AdviceMap::get
AdviceMap_get(map, key) == IF key \in DOMAIN map THEN Some(map[key]) ELSE None

\* AdviceMap::insert: the map after the insertion.
AdviceMap_insert(map, key, value) ==
    [k \in DOMAIN map \cup {key} |-> IF k = key THEN value ELSE map[k]]

\* AdviceMap::extend: the entries of other are inserted one by one.
AdviceMap_extend(map, other) ==
    [k \in DOMAIN map \cup DOMAIN other |-> IF k \in DOMAIN other THEN other[k] ELSE map[k]]

\* An execution that leaves the program's advice map out of the host.
load_advice_map_never(host_map, forest_map) == host_map

\* The entries of the program's advice map are put into the host's map before
\* the first instruction.
load_advice_map(host_map, forest_map) == AdviceMap_extend(host_map, forest_map)

AdviceMapKeyNotFound(key) == [kind |-> "AdviceMapKeyNotFound", key |-> key]

\* adv.push_mapval: the values under the key on top of the operand stack are
\* pushed onto the advice stack.
push_mapval(h, key) ==
    IF AdviceMap_get(h.map, key).some
    THEN Ok([h EXCEPT !.stack = AdviceMap_get(h.map, key).val \o h.stack])
    ELSE Err(AdviceMapKeyNotFound(key))

\* ------------------------------------------------------ advice map: inputs

AdviceKeys == {<<"raw", n>> : n \in 1..MaxAdviceKeys}

AdviceValues == {<<1>>, <<1, 1>>}

\* ----------------------------------------------------- advice map: actions

NotStarted == run.status = "idle"

\* mast_forest.advice_map_mut().insert(key, value)
ForestAdviceInsert ==
    \E key \in AdviceKeys, value \in AdviceValues :
        /\ NotStarted
        /\ program' = AdviceMap_insert(program, key, value)
        /\ UNCHANGED <<host, run>>
        /\ UNCHANGED otherThanExec

\* The host is given an entry of its own before the execution.
HostAdviceInsert ==
    \E key \in AdviceKeys, value \in AdviceValues :
        /\ NotStarted
        /\ host' = [host EXCEPT !.map = AdviceMap_insert(host.map, key, value)]
        /\ UNCHANGED <<program, run>>
        /\ UNCHANGED otherThanExec

\* processor::execute up to the first instruction.
ExecuteBegin ==
    /\ NotStarted
    /\ host' = [host EXCEPT !.map = load_advice_map(host.map, program)]
    /\ run' = [status |-> "running", host_keys |-> DOMAIN host.map, executed |-> 0,
               key |-> None, error |-> None]
    /\ UNCHANGED program
    /\ UNCHANGED otherThanExec

\* One adv.push_mapval with key on top of the operand stack.
ExecutePushMapval ==
    \E key \in AdviceKeys :
        /\ run.status = "running"
        /\ run.executed < MaxInstructions
        /\ IF push_mapval(host, key).ok
           THEN /\ host' = push_mapval(host, key).val
                /\ run' = [run EXCEPT !.executed = @ + 1, !.key = Some(key)]
           ELSE /\ host' = host
                /\ run' = [run EXCEPT !.status = "failed", !.key = Some(key),
                                      !.error = Some(push_mapval(host, key).error)]
        /\ UNCHANGED program
        /\ UNCHANGED otherThanExec

\* The program runs to its end.
ExecuteEnd ==
    /\ run.status = "running"
    /\ run' = [run EXCEPT !.status = "done"]
    /\ UNCHANGED <<program, host>>
    /\ UNCHANGED otherThanExec

InitExec ==
    /\ program = AdviceMap_new
    /\ host = [map |-> AdviceMap_new, stack |-> <<>>]
    /\ run = [status |-> "idle", host_keys |-> {}, executed |-> 0, key |-> None,
              error |-> None]

NextExec ==
    \/ ForestAdviceInsert
    \/ HostAdviceInsert
    \/ ExecuteBegin
    \/ ExecutePushMapval
    \/ ExecuteEnd

\* ----------------------------------------------------------- range checker

U16_MAX == 65535

\* RangeChecker::new: the first and the last value of the 16-bit segment are
\* there from the start, with no lookups.
RangeChecker_new ==
    [lookups |-> [v \in {0, U16_MAX} |-> 0], cycle_range_checks |-> <<>>]

\* RangeChecker::add_value
add_value(rc, value) ==
    [rc EXCEPT !.lookups =
        [v \in DOMAIN rc.lookups \cup {value} |->
            IF v = value
            THEN (IF v \in DOMAIN rc.lookups THEN rc.lookups[v] + 1 ELSE 1)
            ELSE rc.lookups[v]]]

\* BTreeMap::insert on cycle_range_checks.
CycleInsert(cycles, clk, entry) ==
    [c \in DOMAIN cycles \cup {clk} |-> IF c = clk THEN entry ELSE cycles[c]]

\* RangeChecker::add_stack_checks
add_stack_checks(rc, clk, values) ==
    [add_value(add_value(add_value(add_value(rc, values[1]), values[2]), values[3]), values[4])
        EXCEPT !.cycle_range_checks =
            CycleInsert(rc.cycle_range_checks, clk, [stack |-> Some(values), memory |-> None])]

\* RangeChecker::add_mem_checks
add_mem_checks(rc, clk, values) ==
    [add_value(add_value(rc, values[1]), values[2])
        EXCEPT !.cycle_range_checks =
            CycleInsert(rc.cycle_range_checks, clk,
                        IF clk \in DOMAIN rc.cycle_range_checks
                        THEN [rc.cycle_range_checks[clk] EXCEPT !.memory = Some(values)]
                        ELSE [stack |-> None, memory |-> Some(values)])]

\* lookups_to_rows
lookups_to_rows(num_lookups) ==
    IF num_lookups = 0 THEN 1
    ELSE (num_lookups \div 4) + ((num_lookups % 4) \div 2) + ((num_lookups % 4) % 2)

\* The keys of a BTreeMap in the order of its iterator.
RECURSIVE Ascending(_)
Ascending(keys) ==
    IF keys = {} THEN <<>>
    ELSE <<CHOOSE k \in keys : \A other \in keys : k <= other>>
         \o Ascending(keys \ {CHOOSE k \in keys : \A other \in keys : k <= other})

\* result[index] += amount
Bump(result, index, amount) == [result EXCEPT ![index] = @ + amount]

\* One turn of the loop of build_8bit_lookup, for a value with num_rows rows
\* that lies delta above the value before it.
Build8BitStep(acc, num_rows, delta) ==
    [result |-> Bump(Bump(Bump(acc.result, 0, num_rows - 1),
                          255, IF delta \div 255 # 0 THEN delta \div 255 ELSE 0),
                     delta % 255, IF delta % 255 # 0 THEN 1 ELSE 0),
     num_16bit_rows |->
        acc.num_16bit_rows + num_rows
        + (IF delta \div 255 = 0 THEN 0
           ELSE IF delta % 255 = 0 THEN (delta \div 255) - 1 ELSE delta \div 255)]

RECURSIVE Build8BitFrom(_, _, _, _)
Build8BitFrom(lookups, keys, prev_value, acc) ==
    IF keys = <<>> THEN acc
    ELSE Build8BitFrom(lookups, Tail(keys), Head(keys),
                       Build8BitStep(acc, lookups_to_rows(lookups[Head(keys)]),
                                     Head(keys) - prev_value))

\* RangeChecker::build_8bit_lookup: the 8-bit lookup table and the number of
\* rows of the 16-bit segment.
build_8bit_lookup(rc) ==
    Build8BitFrom(rc.lookups, Ascending(DOMAIN rc.lookups), 0,
                  [result |-> [v \in 0..255 |-> IF v = 0 THEN 1 ELSE 0], num_16bit_rows |-> 1])

\* get_num_8bit_rows over result[lo..hi]
RECURSIVE Num8BitRowsRange(_, _, _)
Num8BitRowsRange(result, lo, hi) ==
    IF lo > hi THEN 0
    ELSE IF lo = hi THEN lookups_to_rows(result[lo])
    ELSE Num8BitRowsRange(result, lo, (lo + hi) \div 2)
         + Num8BitRowsRange(result, (lo + hi) \div 2 + 1, hi)

get_num_8bit_rows(result) == Num8BitRowsRange(result, 0, 255)

\* RangeChecker::trace_len
trace_len(rc) ==
    get_num_8bit_rows(build_8bit_lookup(rc).result) + build_8bit_lookup(rc).num_16bit_rows

\* write_trace_row: the selectors, the value and the flag of one row.
TraceRow(s0, s1, value, flag) == [s0 |-> s0, s1 |-> s1, v |-> value, flag |-> flag]

\* write_value with one row for every value, whatever its lookups.
write_value_in_one_row(num_lookups, value) == <<TraceRow(0, 0, value, "F0")>>

\* write_value: the rows written for num_lookups lookups of value.
write_value(num_lookups, value) ==
    IF num_lookups = 0 THEN <<TraceRow(0, 0, value, "F0")>>
    ELSE [r \in 1..(num_lookups \div 4) |-> TraceRow(1, 1, value, "F3")]
         \o [r \in 1..((num_lookups % 4) \div 2) |-> TraceRow(0, 1, value, "F2")]
         \o [r \in 1..((num_lookups % 4) % 2) |-> TraceRow(1, 0, value, "F1")]

\* Bridge rows every 256 values instead of every 255.
BridgeValues_step_256(prev_value, value) ==
    IF value <= prev_value THEN <<>>
    ELSE [k \in 1..((value - prev_value - 1) \div 256) |-> prev_value + 256 * k]

\* (prev_value..value).step_by(255).skip(1)
BridgeValues(prev_value, value) ==
    IF value <= prev_value THEN <<>>
    ELSE [k \in 1..((value - prev_value - 1) \div 255) |-> prev_value + 255 * k]

\* The rows of the 8-bit segment: every value from 0 to 255 with its lookups.
Rows8Bit(result) == Flatten([n \in 1..256 |-> write_value(result[n - 1], n - 1)])

BridgeRows(values) == [k \in 1..Len(values) |-> TraceRow(0, 0, values[k], "F0")]

\* The loop over self.lookups that builds the 16-bit segment.
RECURSIVE Rows16BitFrom(_, _, _)
Rows16BitFrom(lookups, keys, prev_value) ==
    IF keys = <<>> THEN <<>>
    ELSE BridgeRows(BridgeValues(prev_value, Head(keys)))
         \o write_value(lookups[Head(keys)], Head(keys))
         \o Rows16BitFrom(lookups, Tail(keys), Head(keys))

\* The 16-bit segment and the extra row for u16::MAX after it.
Rows16Bit(rc) ==
    Rows16BitFrom(rc.lookups, Ascending(DOMAIN rc.lookups), 0) \o write_value(0, U16_MAX)

\* usize::is_power_of_two
RECURSIVE is_power_of_two(_)
is_power_of_two(n) ==
    IF n <= 0 THEN FALSE
    ELSE IF n = 1 THEN TRUE
    ELSE n % 2 = 0 /\ is_power_of_two(n \div 2)

\* A cell of uninit_vector that nothing wrote: it holds any value.
Uninit == "uninit"

\* The trace once the rows are known: padding rows, the rows of the two
\* segments from num_padding_rows on, and the rows left for random values.
\* trace[r] is row r - 1 of the code.
TraceOf(target_len, num_padding_rows, rows8, rows16) ==
    [trace |->
        [r \in 1..target_len |->
            IF r <= num_padding_rows
            THEN [t |-> 0, s0 |-> 0, s1 |-> 0, v |-> 0, flag |-> "F0"]
            ELSE IF r <= num_padding_rows + Len(rows8)
            THEN [t |-> 0] @@ rows8[r - num_padding_rows]
            ELSE IF r <= num_padding_rows + Len(rows8) + Len(rows16)
            THEN [t |-> 1] @@ rows16[r - num_padding_rows - Len(rows8)]
            ELSE [t |-> 1, s0 |-> Uninit, s1 |-> Uninit, v |-> Uninit, flag |-> Uninit]],
     num_padding_rows |-> num_padding_rows,
     start_16bit |-> num_padding_rows + Len(rows8),
     i |-> num_padding_rows + Len(rows8) + Len(rows16)]

\* into_trace after its two assertions.
IntoTraceChecked(rc, target_len, num_rand_rows, len) ==
    IF (target_len - len - num_rand_rows)
       + Len(Rows8Bit(build_8bit_lookup(rc).result)) + Len(Rows16Bit(rc)) > target_len
    THEN Panic("index out of bounds")
    ELSE Ok([trace_len |-> len, target_len |-> target_len, num_rand_rows |-> num_rand_rows]
            @@ TraceOf(target_len, target_len - len - num_rand_rows,
                       Rows8Bit(build_8bit_lookup(rc).result), Rows16Bit(rc)))

\* RangeChecker::into_trace
into_trace(rc, target_len, num_rand_rows) ==
    IF ~is_power_of_two(target_len)
    THEN Panic("target trace length is not a power of two")
    ELSE IF trace_len(rc) + num_rand_rows > target_len
    THEN Panic("target trace length too small")
    ELSE IntoTraceChecked(rc, target_len, num_rand_rows, trace_len(rc))

\* --------------------------------------------------- range checker: inputs

\* Values at the ends of the range, next to each other, 255 apart and further.
RangeValues == {0, 1, 255, 256, 766, U16_MAX}

StackChecks == {<<0, 0, 0, 0>>, <<1, 256, 766, U16_MAX>>, <<256, 256, 256, 256>>}

MemChecks == {<<0, 255>>, <<766, 766>>}

TargetLens == {512, 1000, 1024}

NumRandRows == {0, 1, 600}

\* -------------------------------------------------- range checker: actions

NumLookups(rc) ==
    LET sum[keys \in SUBSET DOMAIN rc.lookups] ==
            IF keys = {} THEN 0
            ELSE rc.lookups[CHOOSE k \in keys : TRUE]
                 + sum[keys \ {CHOOSE k \in keys : TRUE}]
    IN sum[DOMAIN rc.lookups]

Collecting(added) == checker # NoValue /\ NumLookups(checker) + added <= MaxRangeChecks

RangeAddValue ==
    \E value \in RangeValues :
        /\ Collecting(1)
        /\ checker' = add_value(checker, value)
        /\ UNCHANGED rangeTrace
        /\ UNCHANGED otherThanRange

RangeAddStackChecks ==
    \E clk \in 1..MaxClk, values \in StackChecks :
        /\ Collecting(4)
        /\ checker' = add_stack_checks(checker, clk, values)
        /\ UNCHANGED rangeTrace
        /\ UNCHANGED otherThanRange

RangeAddMemChecks ==
    \E clk \in 1..MaxClk, values \in MemChecks :
        /\ Collecting(2)
        /\ checker' = add_mem_checks(checker, clk, values)
        /\ UNCHANGED rangeTrace
        /\ UNCHANGED otherThanRange

\* into_trace consumes the checker.
RangeIntoTrace ==
    \E target_len \in TargetLens, num_rand_rows \in NumRandRows :
        /\ checker # NoValue
        /\ rangeTrace' = [lookups |-> checker.lookups]
                          @@ into_trace(checker, target_len, num_rand_rows)
        /\ checker' = NoValue
        /\ UNCHANGED otherThanRange

InitRange ==
    /\ checker = RangeChecker_new
    /\ rangeTrace = NoValue

NextRange ==
    \/ RangeAddValue
    \/ RangeAddStackChecks
    \/ RangeAddMemChecks
    \/ RangeIntoTrace

\* ---------------------------------------------------------- specifications

vars == <<forestVars, libVars, nodeVars, asmVars, parseVars, execVars, rangeVars>>

Init == InitForest /\ InitLib /\ InitNode /\ InitAsm /\ InitParse /\ InitExec
        /\ InitRange

\* The forest under construction.
Next == NextForest

Spec == Init /\ [][Next]_vars

\* Packaging, writing and reading libraries.
SpecLib == Init /\ [][NextLib]_vars

\* Call and external nodes built and decorated by value.
SpecNode == Init /\ [][NextNode]_vars

\* The assembler lowering bodies and invocations.
SpecAsm == Init /\ [][NextAsm]_vars

\* The parser reading tokens.
SpecParse == Init /\ [][NextParse]_vars

\* A program with an advice map executed on a host.
SpecExec == Init /\ [][NextExec]_vars

\* The range checker collecting lookups and building its trace.
SpecRange == Init /\ [][NextRange]_vars

\* ------------------------------------------------------------ forest claims

Ids == 1..Len(nodes)

\* C1: handing add_node a node structurally equal to one handed in before
\* returns the id the first insertion returned and appends nothing.
C1_EqualNodeSameId ==
    (last.ok /\ last.known) =>
        /\ ~last.appended
        /\ \E i \in 1..Len(firsts) : firsts[i].node = last.node /\ firsts[i].id = last.id

\* A Join was handed in a second time.
C1_Witness == last.ok /\ last.known /\ last.node.tag = "Join"

\* C2: two nodes that got the same MastNodeId are the same node; in
\* particular they have the same variant.
C2_SameIdSameNode ==
    \A i, j \in 1..Len(firsts) :
        firsts[i].id = firsts[j].id => firsts[i].node = firsts[j].node

\* C3: the k-th distinct node handed in gets id k-1, and the node found under
\* an id is the node found under it when the id was issued.
C3_DenseStableIds ==
    \A k \in 1..Len(firsts) :
        /\ firsts[k].id = k - 1
        /\ get_node_by_id(nodes, firsts[k].id) = firsts[k].stored

C29_IndexAgreesWithNodes ==
    /\ DOMAIN node_id_by_hash = {MastNodeDigest(nodes[i]) : i \in Ids}
    /\ \A d \in DOMAIN node_id_by_hash :
          /\ node_id_by_hash[d] \in 0..(Len(nodes) - 1)
          /\ MastNodeDigest(get_node_by_id(nodes, node_id_by_hash[d])) = d
    /\ \A i, j \in Ids : MastNodeDigest(nodes[i]) = MastNodeDigest(nodes[j]) => i = j
    /\ \A i \in Ids :
          get_node_id_by_digest(node_id_by_hash,
                                MastNodeDigest(get_node_by_id(nodes, i - 1))) = i - 1

\* The forest is full, and a call node handed in again was found by its digest.
C29_Witness ==
    /\ Len(nodes) = MaxNodes
    /\ last.ok
    /\ ~last.appended
    /\ last.node.tag = "Call"
    /\ get_node_id_by_digest(node_id_by_hash, MastNodeDigest(last.node)) = last.id

\* A node as its constructor builds it over the nodes before it.
Reconstruct(n, prefix) ==
    CASE n.tag = "Join"  -> new_join(n.children, prefix)
      [] n.tag = "Split" -> new_split(n.children, prefix)
      [] n.tag = "Loop"  -> new_loop(n.body, prefix)
      [] n.tag = "Call"  -> IF n.is_syscall THEN CallNode_new_syscall(n.callee, prefix)
                                            ELSE CallNode_new(n.callee, prefix)
      [] OTHER           -> n

\* The first k nodes of ns with node i replaced by repl and every later node
\* built again over the replaced nodes.
RECURSIVE Rebuild(_, _, _, _)
Rebuild(ns, i, repl, k) ==
    IF k = 0 THEN <<>>
    ELSE LET prefix == Rebuild(ns, i, repl, k - 1) IN
         Append(prefix, IF k = i THEN repl
                        ELSE IF k < i THEN ns[k]
                        ELSE Reconstruct(ns[k], prefix))

SameDigests(ns, ms) ==
    /\ Len(ns) = Len(ms)
    /\ \A k \in 1..Len(ns) : MastNodeDigest(ns[k]) = MastNodeDigest(ms[k])

\* The nodes that may stand where the External node i stands: those the
\* constructors build over the nodes before i that have its digest.
Replacements(i) ==
    {c \in BuildableOver(SubSeq(nodes, 1, i - 1)) :
        MastNodeDigest(c) = MastNodeDigest(nodes[i])}

\* C10: the digest of External(d) is d, and putting a node of digest d where
\* External(d) stands, or External(d) where a node of digest d stands, changes
\* the digest of no node of the forest.
C10_ExternalSwapKeepsDigests ==
    /\ \A d \in ExternalInputs : MastNodeDigest(new_external(d)) = d
    /\ \A i \in Ids :
        /\ SameDigests(nodes, Rebuild(nodes, i, new_external(MastNodeDigest(nodes[i])),
                                      Len(nodes)))
        /\ nodes[i].tag = "External" =>
              \A c \in Replacements(i) : SameDigests(nodes, Rebuild(nodes, i, c, Len(nodes)))

\* An External node that a real node can replace is the child of a node.
C10_Witness ==
    \E i, k \in Ids :
        /\ nodes[i].tag = "External"
        /\ \E c \in Replacements(i) : c.tag # "External"
        /\ \E c \in 1..Len(Children(nodes[k])) : Children(nodes[k])[c] = i - 1

\* ----------------------------------------------------------- library claims

KernelOps == {"kernel_from", "kernel_read"}

\* The exports of a library that are not from the kernel module.
ForeignExports(library) ==
    {library.exports[i] : i \in {j \in 1..Len(library.exports) :
                                    library.exports[j].module # KernelPath}}

\* The error try_from returned, also when read_from_with_options wrapped it.
KernelError(res) ==
    IF res.op = "kernel_read" THEN res.out.error.cause ELSE res.out.error

\* C5: every CompiledLibrary, built or read, has as many exports as its forest
\* has procedure roots.
C5_ExportsMatchRoots ==
    lib # NoValue => Len(lib.exports) = num_procedures(lib.mast_forest)

\* C6: reading what was written, with the options it was written with,
\* succeeds and gives back the library (and the kernel library) written.
C6_RoundTrip ==
    /\ (libres.op = "read" /\ written # NoValue /\ written.kind = "library"
           /\ libres.options = written.options)
        => (libres.out.ok /\ lib = written.val)
    /\ (libres.op = "kernel_read" /\ written # NoValue /\ written.kind = "kernel"
           /\ libres.options = written.options)
        => (libres.out.ok /\ klib = written.val)

\* A library with a node of every variant and two exports was written and read back.
C6_Witness ==
    /\ libres.op = "read" /\ libres.out.ok
    /\ written # NoValue /\ written.kind = "library" /\ libres.options = written.options
    /\ lib.mast_forest = MixedForest
    /\ Len(lib.exports) = 2

\* C7: a KernelLibrary has only exports of the kernel module, and a library
\* with an export of another module is rejected with InvalidKernelExport naming
\* it (as InvalidValue when read) and gives no KernelLibrary.
C7_KernelExportsOnly ==
    /\ klib # NoValue => ForeignExports(klib.library) = {}
    /\ (libres.op \in KernelOps /\ libres.input # NoValue
           /\ ForeignExports(libres.input) # {})
        => /\ klib = NoValue
           /\ ~libres.out.ok
           /\ ~libres.out.panic
           /\ libres.out.error.err \in {"InvalidKernelExport", "DeserializationError"}
           /\ libres.op = "kernel_read" => libres.out.error.kind = "InvalidValue"
           /\ KernelError(libres).err = "InvalidKernelExport"
           /\ KernelError(libres).procedure_path \in ForeignExports(libres.input)

C9_EmptyExportsRejected ==
    /\ lib # NoValue => Len(lib.exports) > 0
    /\ (libres.op = "new" /\ Len(libres.input.exports) = 0)
        => (~libres.out.ok /\ libres.out.error.err = "EmptyExports")

\* The exports of a module of a library, by their place in the export list.
ExportsOf(library, path) ==
    {i \in 1..Len(library.exports) : library.exports[i].module = path}

\* The digest of procedure root i of the forest of a library.
RootDigest(library, i) ==
    MastNodeDigest(library.mast_forest.nodes[library.mast_forest.roots[i] + 1])

\* The number of procedure infos of the modules of paths.
RECURSIVE NumProcedureInfos(_, _)
NumProcedureInfos(infos, paths) ==
    IF paths = {} THEN 0
    ELSE Len(infos[CHOOSE p \in paths : TRUE].procedure_infos)
         + NumProcedureInfos(infos, paths \ {CHOOSE p \in paths : TRUE})

\* C27: into_module_infos yields exactly one ModuleInfo per distinct module
\* path among the exports; each holds the (name, digest) pairs of the exports
\* of its module in the order of the export list, the digest for export i
\* being the digest of procedure root i; the procedure infos of all modules
\* are as many as the exports.
C27_ModuleInfosRegroupExports ==
    libres.op = "module_infos" =>
        /\ libres.out.ok
        /\ DOMAIN libres.infos
           = {libres.input.exports[i].module : i \in 1..Len(libres.input.exports)}
        /\ \A p \in DOMAIN libres.infos :
              /\ libres.infos[p].path = p
              /\ Len(libres.infos[p].procedure_infos)
                 = Cardinality(ExportsOf(libres.input, p))
              /\ \A i \in ExportsOf(libres.input, p) :
                    libres.infos[p].procedure_infos[
                        Cardinality({j \in ExportsOf(libres.input, p) : j <= i})]
                    = [name |-> libres.input.exports[i].name,
                       digest |-> RootDigest(libres.input, i)]
        /\ NumProcedureInfos(libres.infos, DOMAIN libres.infos)
           = Len(libres.input.exports)

\* C28: in a KernelLibrary, kernel procedure i has the name of export i and
\* the digest of procedure root i of the library's forest, in kernel_info and
\* in the digests of the Kernel, so every digest of the Kernel is the digest
\* of a node of the forest.
C28_KernelProcsAreRoots ==
    klib # NoValue =>
        /\ klib.kernel_info.path = KernelPath
        /\ Len(klib.kernel_info.procedure_infos) = Len(klib.library.exports)
        /\ Len(klib.kernel) = Len(klib.library.exports)
        /\ \A i \in 1..Len(klib.library.exports) :
              /\ klib.kernel_info.procedure_infos[i]
                 = [name |-> klib.library.exports[i].name,
                    digest |-> RootDigest(klib.library, i)]
              /\ klib.kernel[i] = RootDigest(klib.library, i)
        /\ \A i \in 1..Len(klib.kernel) :
              \E n \in 1..Len(klib.library.mast_forest.nodes) :
                  klib.kernel[i] = MastNodeDigest(klib.library.mast_forest.nodes[n])
        /\ into_parts(klib) = <<klib.kernel, klib.kernel_info, klib.library.mast_forest>>

\* A kernel library was built from a library with two exports of the kernel
\* module over two different procedure roots.
C28_Witness ==
    /\ libres.op = "kernel_from"
    /\ klib # NoValue
    /\ Len(klib.library.exports) = 2
    /\ klib.kernel[1] # klib.kernel[2]
    /\ klib.library.exports[1].name # klib.library.exports[2].name

\* ------------------------------------------------- claims on call nodes

\* The digest the specification gives a call node over the nodes ns.
CallDigestOver(node, ns, domain) ==
    merge_in_domain(MastNodeDigest(get_node_by_id(ns, CallNode_callee(node))),
                    ZeroWord, domain)

\* C11: the digest of a node built by CallNode::new over a valid callee is
\* merge_in_domain([digest(callee), zero word], CALL_DOMAIN), that of a node
\* built by CallNode::new_syscall is the same merge in SYSCALL_DOMAIN, and
\* is_syscall() and domain() say syscall for exactly the nodes new_syscall built.
C11_CallDigestAndDomain ==
    /\ last.ok /\ last.op = "call" =>
          /\ CallNode_digest(last.node) = CallDigestOver(last.node, nodes, CALL_DOMAIN)
          /\ ~CallNode_is_syscall(last.node)
          /\ CallNode_domain(last.node) = CALL_DOMAIN
    /\ last.ok /\ last.op = "syscall" =>
          /\ CallNode_digest(last.node) = CallDigestOver(last.node, nodes, SYSCALL_DOMAIN)
          /\ CallNode_is_syscall(last.node)
          /\ CallNode_domain(last.node) = SYSCALL_DOMAIN
    /\ \A i \in Ids :
          nodes[i].tag = "Call" =>
              CallNode_digest(nodes[i]) = CallDigestOver(nodes[i], nodes, CallNode_domain(nodes[i]))

\* A syscall node was built over a callee of the forest, and stored.
C11_Witness ==
    /\ last.ok /\ last.op = "syscall" /\ last.appended
    /\ CallNode_callee(last.node) < Len(nodes) - 1

\* The variant of a node as the specification names it.
VariantTag(node) ==
    IF node.tag = "Call" /\ CallNode_is_syscall(node) THEN "SysCall" ELSE node.tag

\* The nodes a caller can hand to the forest in this state.
Candidates == BuildableOver(nodes) \cup {new_external(d) : d \in ExternalInputs}

\* A call and a syscall over each callee of the forest, added one after the
\* other, have different digests and get different ids.
CallAndSysCallApart ==
    \A c \in 0..Len(nodes) - 1 :
        LET call == CallNode_new(c, nodes)
            sys == CallNode_new_syscall(c, nodes)
            r1 == add_node(nodes, node_id_by_hash, call)
            r2 == add_node(r1.nodes, r1.index, sys)
        IN  /\ MastNodeDigest(call) # MastNodeDigest(sys)
            /\ r1.id # r2.id

\* No two of the nodes ns have different variants and equal digests: there
\* are as many digests as pairs of a variant and a digest.
VariantsApart(ns) ==
    Cardinality({MastNodeDigest(n) : n \in ns})
    = Cardinality({<<VariantTag(n), MastNodeDigest(n)>> : n \in ns})

\* C12 as stated: two nodes of different variants never have equal digests,
\* and a call and a syscall over one callee differ in digest and in id.
C12_DifferentVariantsNeverCollide ==
    /\ VariantsApart(Candidates)
    /\ CallAndSysCallApart

\* C12, amended: two nodes of different variants whose digests are computed
\* (every variant but External) never have equal digests, and a call and a
\* syscall over one callee differ in digest and in id.
C12_ComputedVariantsNeverCollide ==
    /\ VariantsApart({n \in Candidates : n.tag # "External"})
    /\ CallAndSysCallApart

\* A call node was stored and a syscall over its callee can be built.
C12_Witness ==
    /\ last.ok /\ last.op = "call" /\ last.appended
    /\ \E n \in Candidates :
          /\ VariantTag(n) = "SysCall"
          /\ CallNode_callee(n) = CallNode_callee(last.node)

\* --------------------------------------------------- claims on decorators

SetsDecorators == heldWas.op \in {"set_before_enter", "set_after_exit"}

\* The fields of a node other than its two decorator lists.
WithoutDecorators(node) ==
    [f \in DOMAIN node \ {"before_enter", "after_exit"} |-> node[f]]

\* C13: set_before_enter and set_after_exit on a call or external node replace
\* the decorator list they name by their argument and leave the other list,
\* the digest, the callee and is_syscall as they were; two nodes that differ
\* only in their decorators have equal digests.
C13_DecoratorsOutsideDigest ==
    SetsDecorators =>
        /\ MastNodeDigest(held) = MastNodeDigest(heldWas.node)
        /\ WithoutDecorators(held) = WithoutDecorators(heldWas.node)
        /\ held.tag = "Call" =>
              /\ CallNode_digest(held) = CallNode_digest(heldWas.node)
              /\ CallNode_callee(held) = CallNode_callee(heldWas.node)
              /\ CallNode_is_syscall(held) = CallNode_is_syscall(heldWas.node)
        /\ held.tag = "External" =>
              ExternalNode_digest(held) = ExternalNode_digest(heldWas.node)
        /\ heldWas.op = "set_before_enter" =>
              /\ held.before_enter = heldWas.arg
              /\ held.after_exit = heldWas.node.after_exit
        /\ heldWas.op = "set_after_exit" =>
              /\ held.after_exit = heldWas.arg
              /\ held.before_enter = heldWas.node.before_enter

\* A syscall node that already had decorators after it was given new ones before it.
C13_Witness ==
    /\ heldWas.op = "set_before_enter"
    /\ held.tag = "Call" /\ CallNode_is_syscall(held)
    /\ held.before_enter # heldWas.node.before_enter
    /\ held.after_exit # <<>>

\* ------------------------------------------- claims on rejected callees

CallOps == {"call", "syscall"}

\* What the two checked constructors return for a callee over the forest.
CallResults(callee) == {CallNode_new(callee, nodes), CallNode_new_syscall(callee, nodes)}

\* C14: CallNode::new and CallNode::new_syscall with a callee id that is not
\* less than the number of nodes of the forest return NodeIdOverflow(callee,
\* number of nodes), no node is created and the forest stays as it was; with a
\* callee id below the number of nodes they succeed.
C14_CalleeOverflowRejected ==
    [][/\ \A callee \in IdInputs :
             IF callee >= Len(nodes)
             THEN CallResults(callee) = {NodeIdOverflow(callee, Len(nodes))}
             ELSE \A built \in CallResults(callee) :
                     ~IsErr(built) /\ CallNode_callee(built) = callee
       /\ last'.op \in CallOps /\ ~last'.ok =>
             /\ \E callee \in IdInputs :
                   /\ callee >= Len(nodes)
                   /\ last'.error = NodeIdOverflow(callee, Len(nodes))
             /\ nodes' = nodes
             /\ node_id_by_hash' = node_id_by_hash
             /\ firsts' = firsts
       /\ last'.op \in CallOps /\ last'.ok =>
             CallNode_callee(last'.node) < Len(nodes)
      ]_vars

\* A syscall over the first id past a forest of two nodes was refused.
C14_Witness ==
    /\ last.op = "syscall" /\ ~last.ok
    /\ last.error = NodeIdOverflow(Len(nodes), Len(nodes))
    /\ Len(nodes) = MaxNodes

\* ---------------------------------------------------- claims on lowering

\* C15: for every N >= 1 and every body, the root of `repeat N body` and the
\* root of N exec instructions of the body in a row have the same digest.
C15_RepeatEqualsExecSequence ==
    \A count \in 1..MaxRepeat, body \in BuilderIds :
        LET rep == lower_repeat(builder, count, body)
            seq == lower_exec_sequence(builder, count, body)
        IN  MastNodeDigest(get_node_by_id(rep.nodes, rep.id))
            = MastNodeDigest(get_node_by_id(seq.nodes, seq.id))

SysCallLowered == lowered.what.op = "invoke" /\ lowered.what.kind = "SysCall"

\* C16: lowering `syscall foo` succeeds exactly when the kernel exports foo,
\* and then returns a syscall node whose callee carries the digest of the
\* kernel procedure; when the kernel does not export foo it fails with
\* KernelProcNotFound and the forest gets no node.
C16_SysCallNeedsKernelProc ==
    SysCallLowered =>
        IF lowered.what.callee.name \in DOMAIN asmKernel
        THEN /\ lowered.ok
             /\ get_node_by_id(builder.nodes, lowered.result).tag = "Call"
             /\ CallNode_is_syscall(get_node_by_id(builder.nodes, lowered.result))
             /\ MastNodeDigest(get_node_by_id(builder.nodes,
                    CallNode_callee(get_node_by_id(builder.nodes, lowered.result))))
                = asmKernel[lowered.what.callee.name]
        ELSE /\ ~lowered.ok
             /\ lowered.result = KernelProcNotFound(lowered.what.callee.name)
             /\ lowered.added = 0

\* The digest an invocation target resolves to.
TargetDigest(callee) ==
    IF callee.by = "name" THEN asmKernel[callee.name] ELSE callee.root

ResultNode == get_node_by_id(builder.nodes, lowered.result)

\* C24: Assembler::invoke returns the resolved procedure's root id unchanged
\* for Exec and ProcRef and adds no Call node, returns the id of a Call node
\* whose callee is the resolved root for Call, and the id of a SysCall node
\* whose callee is the resolved root for SysCall; when the target does not
\* resolve the error is returned and no wrapper node is added.
C24_InvokeWrapsResolvedRoot ==
    lowered.what.op = "invoke" =>
        /\ ~lowered.ok => lowered.added = 0
        /\ lowered.ok /\ lowered.what.kind \in {"Exec", "ProcRef"} =>
              /\ MastNodeDigest(ResultNode) = TargetDigest(lowered.what.callee)
              /\ lowered.added <= 1
              /\ lowered.added = 1 => lowered.result = Len(builder.nodes) - 1
        /\ lowered.ok /\ lowered.what.kind \in {"Call", "SysCall"} =>
              /\ ResultNode.tag = "Call"
              /\ CallNode_is_syscall(ResultNode) = (lowered.what.kind = "SysCall")
              /\ MastNodeDigest(get_node_by_id(builder.nodes, CallNode_callee(ResultNode)))
                 = TargetDigest(lowered.what.callee)

\* The root digest of the target of a procref.
ProcRefDigest(callee) ==
    IF callee.by = "root" THEN callee.root
    ELSE MastNodeDigest(get_node_by_id(builder.nodes, callee.id))

\* C25: lowering `procref target` appends exactly four Push operations with
\* the four elements of the target's root digest, in digest order, to the
\* current basic block, and adds no node to the forest, whether the target is
\* a local name, a module-qualified name or a digest literal.
C25_ProcRefPushesDigestOnly ==
    lowered.what.op = "procref" /\ lowered.ok =>
        /\ blockOps = [i \in 1..4 |->
                          Push(DigestElements(ProcRefDigest(lowered.what.callee))[i])]
        /\ lowered.added = 0

ProcRefLowered == lowered'.what.op = "procref" /\ lowered'.ok /\ blockOps' # blockOps

\* C25, amended: `procref target` appends exactly four Push operations with
\* the elements of the target's root digest, in digest order; it leaves the
\* forest as it is for a local name, a module-qualified name and a digest the
\* forest has a node for, and adds one External node of the digest, and
\* nothing else, for a digest literal the forest has no node for.
C25_ProcRefAddsOnlyExternal ==
    [][ProcRefLowered =>
          /\ blockOps' = blockOps \o [i \in 1..4 |->
                              Push(DigestElements(ProcRefDigest(lowered'.what.callee))[i])]
          /\ IF /\ lowered'.what.callee.by = "root"
                /\ get_node_id_by_digest(builder.index, lowered'.what.callee.root) = -1
             THEN builder'.nodes
                  = Append(builder.nodes, new_external(lowered'.what.callee.root))
             ELSE builder' = builder
      ]_vars

\* A procref of a digest literal that the forest had no node for was lowered
\* after a procedure was in the forest.
C25_Witness ==
    /\ lowered.what.op = "procref"
    /\ lowered.what.callee.by = "root"
    /\ lowered.added = 1
    /\ Len(builder.nodes) > 1
    /\ Len(blockOps) = 4

DynIds == {i \in BuilderIds : get_node_by_id(builder.nodes, i).tag = "Dyn"}

DynCallIds ==
    {i \in BuilderIds :
        /\ get_node_by_id(builder.nodes, i).tag = "Call"
        /\ ~CallNode_is_syscall(get_node_by_id(builder.nodes, i))
        /\ CallNode_callee(get_node_by_id(builder.nodes, i)) \in DynIds}

\* C26: the forest contains at most one Dyn node; every dynexec returns that
\* node's id, and every dyncall returns the id of the single non-syscall Call
\* node whose callee is that Dyn node.
C26_DynIsSingleton ==
    /\ Cardinality(DynIds) <= 1
    /\ Cardinality(DynCallIds) <= 1
    /\ lowered.what.op = "dynexec" /\ lowered.ok => lowered.result \in DynIds
    /\ lowered.what.op = "dyncall" /\ lowered.ok => lowered.result \in DynCallIds

\* ------------------------------------------------ claims on the parser

ElseRead == lastRead'.keyword = "else"

\* C17: `else` is accepted only when the innermost open block is IfThen, which
\* it turns into IfElse; in every other state (IfElse, WhileBody, RepeatBody,
\* ProcBody, BeginBody, ModuleTop) `else` ends the parse with an error.
C17_ElseOnlyInIfThen ==
    [][ElseRead =>
          /\ parser'.status \in {"parsing", "failed"}
          /\ parser'.status = "parsing" =>
                /\ Top(blocks) = "IfThen"
                /\ blocks' = [blocks EXCEPT ![Len(blocks)] = "IfElse"]
          /\ Top(blocks) # "IfThen" => parser'.status = "failed" /\ blocks' = blocks
          /\ Top(blocks) = "IfThen" /\ lastRead'.text = Keyword["else"] =>
                parser'.status = "parsing"
      ]_vars

\* An else was taken in an if that is nested in another block of a procedure.
C17_Witness ==
    /\ lastRead.keyword = "else"
    /\ parser.status = "parsing"
    /\ Top(blocks) = "IfElse"
    /\ Len(blocks) = MaxDepth + 1

\* The kind of error the specification gives for a block left open.
UnmatchedKind ==
    [IfThen |-> "unmatched_if", IfElse |-> "unmatched_else", WhileBody |-> "unmatched_while",
     RepeatBody |-> "unmatched_repeat", ProcBody |-> "unmatched_proc",
     BeginBody |-> "unmatched_begin"]

\* C18: a source is accepted only with the block stack back at ModuleTop at
\* the end of input; each `end` that is taken pops exactly one level; a block
\* still open at the end of input gives the unmatched error of its kind.
C18_AcceptedOnlyAtModuleTop ==
    [][/\ parser'.status = "accepted" =>
             lastRead'.keyword = "eof" /\ blocks = <<"ModuleTop">> /\ blocks' = blocks
       /\ lastRead'.keyword = "end" /\ parser'.status = "parsing" =>
             /\ Len(blocks) > 1
             /\ blocks' = SubSeq(blocks, 1, Len(blocks) - 1)
       /\ lastRead'.keyword = "eof" /\ Top(blocks) # "ModuleTop" =>
             /\ parser'.status = "failed"
             /\ parser'.error.kind = UnmatchedKind[Top(blocks)]
      ]_vars

\* The input ended in the else branch of an if inside a procedure.
C18_Witness ==
    /\ lastRead.keyword = "eof"
    /\ parser.status = "failed"
    /\ parser.error = ParsingError("unmatched_else")
    /\ Len(blocks) >= 3

\* The counts from 1 to u32::MAX among the inputs.
PositiveCounts ==
    {<<"1">>, <<"2">>, <<"0", "3">>, <<"+", "1">>,
     <<"4", "2", "9", "4", "9", "6", "7", "2", "9", "5">>}

\* C19: `repeat.N` is accepted only for N >= 1: `repeat.0`, a missing count,
\* a count that is no u32 and extra parameters are parse errors.
C19_RepeatCountAtLeastOne ==
    lastRead.keyword = "repeat" =>
        (lastRead.result.ok <=>
            lastRead.text \in {Keyword["repeat"] \o <<".">> \o n : n \in PositiveCounts})

\* The module-qualified label among the inputs, and the valid local names.
QualifiedLabel == <<"m", ":", ":", "p">>
LocalNames == {<<"a">>, <<"a", "1">>, <<"a", "_">>}

\* C20: `syscall.<label>` is accepted only for a valid local procedure name;
\* a label `mod::proc` is rejected with the error syscall_with_module_name,
\* and the same label is accepted by `exec` and by `call`.
C20_SysCallOnlyLocalName ==
    /\ lastRead.keyword = "syscall" =>
          /\ lastRead.result.ok <=>
                lastRead.text \in {Keyword["syscall"] \o <<".">> \o n : n \in LocalNames}
          /\ lastRead.text = Keyword["syscall"] \o <<".">> \o QualifiedLabel =>
                lastRead.result = Err(ParsingError("syscall_with_module_name"))
    /\ lastRead.keyword = "exec" /\ lastRead.text = Keyword["exec"] \o <<".">> \o QualifiedLabel =>
          lastRead.result = Ok([proc_name |-> <<"p">>, module_name |-> Some(<<"m">>)])
    /\ lastRead.keyword = "call" /\ lastRead.text = Keyword["call"] \o <<".">> \o QualifiedLabel =>
          lastRead.result = Ok([proc_name |-> <<"p">>, module_name |-> Some(<<"m">>)])

\* A syscall with a module-qualified label was read inside a body and refused.
C20_Witness ==
    /\ lastRead.keyword = "syscall"
    /\ lastRead.text = Keyword["syscall"] \o <<".">> \o QualifiedLabel
    /\ parser.status = "failed"
    /\ parser.error = ParsingError("syscall_with_module_name")
    /\ Len(blocks) > 1

StartsWithDelim(path) == Len(path) >= 2 /\ SubSeq(path, 1, 2) = MODULE_PATH_DELIM

EndsWithDelim(path) ==
    Len(path) >= 2 /\ SubSeq(path, Len(path) - 1, Len(path)) = MODULE_PATH_DELIM

\* C21: a module path of a `use` declaration that starts or ends with `::` is
\* rejected with a parse error; every path that parse_use accepts neither
\* starts nor ends with `::`.
C21_UsePathNotDelimited ==
    lastRead.keyword = "use" /\ lastRead.result.ok =>
        /\ ~StartsWithDelim(lastRead.result.val)
        /\ ~EndsWithDelim(lastRead.result.val)

\* ------------------------------------------------ claims on the advice map

C22_WitnessNotFound ==
    /\ run.key.some
    /\ run.key.val \notin DOMAIN program \cup run.host_keys
    /\ DOMAIN program # {}
    /\ run.status = "failed"

\* --------------------------------------------- claims on the range checker

\* The values of rows lo..hi of the code's trace, first to last.
ValuesOfRows(lo, hi) == [k \in 1..(hi - lo + 1) |-> rangeTrace.val.trace[lo + k].v]

NonDecreasing(values) == \A k \in 1..(Len(values) - 1) : values[k] <= values[k + 1]

\* The 16-bit segment as written: from start_16bit up to the row cursor.
Segment16 == ValuesOfRows(rangeTrace.val.start_16bit, rangeTrace.val.i - 1)

\* The 8-bit segment as written: from the end of the padding to start_16bit.
Segment8 == ValuesOfRows(rangeTrace.val.num_padding_rows, rangeTrace.val.start_16bit - 1)

\* C23: after any sequence of add_value, add_stack_checks and add_mem_checks
\* followed by into_trace, the 16-bit segment starts with 0 and ends with
\* 65535, its values are non-decreasing and consecutive values differ by at
\* most 255; the 8-bit segment enumerates all values 0..255 in non-decreasing
\* order.
C23_RangeTraceSegments ==
    rangeTrace # NoValue /\ rangeTrace.ok =>
        /\ Segment16 # <<>>
        /\ Segment16[1] = 0
        /\ Segment16[Len(Segment16)] = U16_MAX
        /\ NonDecreasing(Segment16)
        /\ \A k \in 1..(Len(Segment16) - 1) : Segment16[k + 1] - Segment16[k] <= 255
        /\ \A r \in (rangeTrace.val.start_16bit + 1)..rangeTrace.val.i : rangeTrace.val.trace[r].t = 1
        /\ {Segment8[k] : k \in 1..Len(Segment8)} = 0..255
        /\ NonDecreasing(Segment8)
        /\ \A r \in 1..rangeTrace.val.start_16bit : rangeTrace.val.trace[r].t = 0

\* A trace was built from stack and memory checks and a single value; it
\* holds a value looked up five times and values more than 255 apart.
C23_Witness ==
    /\ rangeTrace # NoValue
    /\ rangeTrace.ok
    /\ {256, 766} \subseteq DOMAIN rangeTrace.lookups
    /\ rangeTrace.lookups[256] = 5

\* C30: the rows into_trace writes after the padding rows (the 8-bit rows and
\* the 16-bit rows with the bridge rows and the last row for 65535) are as
\* many as trace_len(), so when trace_len + num_rand_rows <= target_len the
\* row cursor ends at target_len - num_rand_rows and no write goes past it.
C30_RowsWrittenEqualTraceLen ==
    rangeTrace # NoValue =>
        /\ rangeTrace.ok =>
              /\ rangeTrace.val.i - rangeTrace.val.num_padding_rows = rangeTrace.val.trace_len
              /\ rangeTrace.val.i = rangeTrace.val.target_len - rangeTrace.val.num_rand_rows
              /\ \A r \in (rangeTrace.val.i + 1)..rangeTrace.val.target_len :
                    rangeTrace.val.trace[r].v = Uninit
        /\ ~rangeTrace.ok =>
              rangeTrace.error \in {"target trace length is not a power of two",
                                    "target trace length too small"}

\* A trace with a row left for random values was built from lookups that take
\* several rows for one value.
C30_Witness ==
    /\ rangeTrace # NoValue
    /\ rangeTrace.ok
    /\ rangeTrace.val.num_rand_rows = 1
    /\ rangeTrace.val.num_padding_rows > 0
    /\ \E v \in DOMAIN rangeTrace.lookups : rangeTrace.lookups[v] >= 5

====
